---- MODULE Spec2Model ----
(***************************************************************************)
(* LibreChat admin API (admin-api/src/server.js, admin-api/src/k8s.service.js)*)
(* as a state machine: the MongoDB collections, the audit collection, the  *)
(* calls made to the Kubernetes control plane, and the HTTP requests in    *)
(* flight, each at one of the awaits of its handler.  One action is one    *)
(* awaited store or control-plane call together with the synchronous code  *)
(* that follows it up to the next await.                                   *)
(***************************************************************************)
EXTENDS Integers, Sequences, FiniteSets, TLC

\* ------------------------------------------------------------------ bounds
\* Number of HTTP requests of one run (they may all be in flight together).
MaxReq == 2
\* Longest composite id ("<namespace>::<name>") given to a pod/deployment route.
MaxIdLen == 7
\* Largest page and largest limit a list request asks for.
MaxPage == 3
MaxLimit == 2

ReqIds == 1..MaxReq

\* ----------------------------------------------------------------- strings
\* A string value: t names its shape, v a number it carries, s its characters
\* (or tokens) when the code looks inside it.
Str(t, v) == [t |-> t, v |-> v, s |-> <<>>]
NoStr == Str("none", 0)
\* A string that is no 24-digit hex string.
BadId == Str("bad", 0)

\* ObjectId.prototype.toString(): the 24-digit hex string of a store-native key.
ObjectIdToString(oid) == Str("hex", oid)
\* new ObjectId(s) throws (BSONError) unless s is a 24-digit hex string.
ObjectIdThrows(s) == s.t # "hex"
\* new ObjectId(s) for a well-formed s.
ObjectId(s) == s.v

\* --------------------------------------------------------------- documents
\* A stored document: _id is the store-native key; appId is the application
\* identifier field (agents: id, conversations: conversationId), NoStr when the
\* document has none; name is roles.name / agents.name; role is users.role.
Doc(oid, appId, name, role) == [_id |-> oid, appId |-> appId, name |-> name, role |-> role]
NoDoc == Doc(0, NoStr, "", "")

\* Collections the API serves; /api/convos is backed by 'conversations'.
NativeKeyed == {"users", "roles", "messages", "files", "sessions", "tokens",
                "transactions", "projects"}
Resources == NativeKeyed \cup {"agents", "conversations"}
\* Resources whose only audited mutation is DELETE, plus users and agents, whose
\* DELETE handler has the same shape (findOne, deleteOne, audit, respond).
PlainDelete == Resources \ {"roles"}

RoleNames == {"ADMIN", "USER"}
\* Names a client may give a role: those of the stored roles and a new one.
NewRoleNames == RoleNames \cup {"DEV"}
\* A body field that the request does not carry.
Absent == "$absent"

VARIABLES
  coll,        \* coll[res]: the documents of collection res
  audit_logs,  \* the audit collection
  nextOid,     \* the next store-native key the driver generates
  k8sCalls,    \* calls received by the orchestration control plane
  req,         \* the requests: parameters, handler position, locals, response
  server       \* the process: position in start(), db handle, socket, exit code

vars == <<coll, audit_logs, nextOid, k8sCalls, req, server>>

\* ----------------------------------------------------------------- process
\* let db = null
NoDb == "null"
DB_NAME == "LibreChat"
\* The process before start() runs.
Starting == [pc |-> "connectDB", db |-> NoDb, listening |-> FALSE, exitCode |-> -1]
\* The process once start() has run to its end.
Serving == [pc |-> "serving", db |-> DB_NAME, listening |-> TRUE, exitCode |-> -1]

\* ---------------------------------------------------------------- requests
NoAudit == [action |-> "none", resource |-> "none", resourceId |-> NoStr]
NoBody == [tag |-> "none", id |-> NoStr, msg |-> "", n |-> 0]
ErrorBody(msg) == [tag |-> "error", id |-> NoStr, msg |-> msg, n |-> 0]
\* An error message that quotes a value (a verb, a resource type, a name).
ErrorAbout(msg, what) == [tag |-> "error", id |-> what, msg |-> msg, n |-> 0]
\* The three service entries of a system-status response, before it is built.
NoService == [status |-> "none", reason |-> "none", pods |-> <<>>]
NoHealth == [librechat |-> NoService, mongodb |-> NoService, mcp |-> NoService]
\* req.query of a list request: page, limit, order and (audit-logs) action.
NoQuery == [page |-> 0, limit |-> 0, order |-> "none", action |-> "none"]
IdleReq == [kind |-> "none", res |-> "none", id |-> NoStr, name |-> "", pc |-> "idle",
            snap |-> NoDoc, cnt |-> 0, newId |-> 0, aud |-> NoAudit, auditId |-> 0,
            auditOk |-> "none", stale |-> FALSE, list |-> {}, result |-> NoBody,
            query |-> NoQuery, data |-> <<>>, total |-> 0, health |-> NoHealth,
            status |-> 0, body |-> NoBody]

\* A request reaches a handler only through the listening socket; requests
\* arrive in the order of their numbers.
Arrives(r) ==
  /\ server.listening
  /\ req[r].pc = "idle"
  /\ (IF r = 1 THEN TRUE ELSE req[r - 1].pc # "idle")

\* res.status(status).json(body): the handler is finished.
Reply(r, status, body) == [req[r] EXCEPT !.pc = "done", !.status = status, !.body = body]

\* A request between its check query and the write the check guards.
InRoleWriteWindow(q) ==
  /\ req[q].kind \in {"POST_roles", "PUT_roles"}
  /\ req[q].pc \in {"insertOne", "findOneAndUpdate"}
InRoleDeleteWindow(q) ==
  /\ req[q].kind = "DELETE_roles"
  /\ req[q].pc \in {"countDocuments", "deleteOne"}
  /\ req[q].snap # NoDoc

\* History, not program state: req[q].stale records that another request wrote
\* a collection that q's check query had read, after the check and before q's
\* own write.  res is the collection just written by request r.
MarkStale(rq, r, res) ==
  [q \in ReqIds |->
     IF q # r /\ ( \/ (res = "roles" /\ InRoleWriteWindow(q))
                   \/ (res \in {"users", "roles"} /\ InRoleDeleteWindow(q)) )
     THEN [rq[q] EXCEPT !.stale = TRUE]
     ELSE rq[q]]

\* ------------------------------------------------------------------ filters
\* The documents a by-id handler's filter selects: { _id: new ObjectId(id) } for
\* store-keyed resources, { id: id } for agents, { conversationId: id } for
\* conversations.
Matching(res, id) ==
  IF res \in NativeKeyed
  THEN {d \in coll[res] : d._id = ObjectId(id)}
  ELSE {d \in coll[res] : d.appId = id}
\* Building the filter throws only where the handler calls new ObjectId.
FilterThrows(res, id) == res \in NativeKeyed /\ ObjectIdThrows(id)
\* findOne: a matching document, or null.
FindOne(res, id) ==
  IF Matching(res, id) = {} THEN NoDoc ELSE CHOOSE d \in Matching(res, id) : TRUE

\* ---------------------------------------------------------------- initial
InitColl ==
  [res \in Resources |->
     CASE res = "roles" -> {Doc(1, NoStr, "ADMIN", ""), Doc(2, NoStr, "USER", "")}
       [] res = "users" -> {Doc(3, NoStr, "", "ADMIN")}
       [] res = "agents" -> {Doc(4, Str("app", 4), "helper", "")}
       [] res = "conversations" -> {Doc(5, Str("conv", 5), "", "")}
       [] OTHER -> {Doc(6, NoStr, "", "")}]

Init ==
  /\ coll = InitColl
  /\ audit_logs = {}
  /\ nextOid = 10
  /\ k8sCalls = {}
  /\ req = [r \in ReqIds |-> IdleReq]
  /\ server = Serving


\* Ids a client may put in /api/{resource}/:id: the id of a stored document,
\* the id of no document, or a malformed one.
IdParams(res) ==
  IF res \in NativeKeyed
  THEN {ObjectIdToString(d._id) : d \in coll[res]} \cup {ObjectIdToString(99), BadId}
  ELSE {d.appId : d \in coll[res]} \cup {Str("app", 99)}

\* -------------------------------------------------------------- audit log
\* The arguments a handler passes to createAuditLog(action, resource, resourceId, ...).
\* Fault variant: the audit call loses the affected entity's id.
AuditArgsMut(action, resource, resourceId) ==
  [action |-> action, resource |-> resource, resourceId |-> NoStr]
AuditArgs(action, resource, resourceId) ==
  [action |-> action, resource |-> resource, resourceId |-> resourceId]

\* Fault variant: no catch block, the insert error reaches the handler.
AuditErrorPropagatesMut == TRUE
\* createAuditLog's catch block logs the error and returns: the error of a
\* failed insert never reaches the handler.
AuditErrorPropagates == FALSE

\* createAuditLog: one insertOne into audit_logs, which succeeds or throws; the
\* handler's await resumes either way.  A record keeps the number of the request
\* that wrote it, and the request the key of its record (history: the code
\* stores neither).
createAuditLog(r) ==
  /\ req[r].pc = "audit"
  /\ \/ /\ audit_logs' = audit_logs \cup
               {[_id |-> nextOid, action |-> req[r].aud.action,
                 resource |-> req[r].aud.resource,
                 resourceId |-> req[r].aud.resourceId, req |-> r]}
        /\ nextOid' = nextOid + 1
        /\ req' = [req EXCEPT ![r].pc = "respond", ![r].auditOk = "ok",
                               ![r].auditId = nextOid]
     \/ /\ UNCHANGED <<server, audit_logs, nextOid>>
        /\ req' = [req EXCEPT ![r].pc = "respond", ![r].auditOk = "failed"]
  /\ UNCHANGED <<server, coll, k8sCalls>>

\* The success response each audited handler sends after its audit call.
SuccessStatus(kind) ==
  IF kind \in {"POST_users", "POST_roles", "POST_agents"} THEN 201 ELSE 200
SuccessBody(r) ==
  CASE req[r].kind \in {"POST_users", "POST_roles"} ->
         [tag |-> "doc", id |-> ObjectIdToString(req[r].newId), msg |-> "", n |-> 0]
    [] req[r].kind = "POST_agents" ->
         [tag |-> "doc", id |-> req[r].snap.appId, msg |-> "", n |-> 0]
    [] req[r].kind \in {"PUT_users", "PUT_roles"} ->
         [tag |-> "doc", id |-> ObjectIdToString(req[r].snap._id), msg |-> "", n |-> 0]
    [] req[r].kind = "PUT_agents" ->
         [tag |-> "doc", id |-> req[r].snap.appId, msg |-> "", n |-> 0]
    [] req[r].kind = "POST_kubectl" -> req[r].result
    [] req[r].kind = "POST_restart" ->
         [tag |-> "restarted", id |-> req[r].aud.resourceId, msg |-> "", n |-> 0]
    [] OTHER ->
         [tag |-> "id", id |-> req[r].id, msg |-> "", n |-> 0]

\* The continuation after `await createAuditLog(...)`: res.json / res.status(201).json.
\* Were the audit error to reach the handler, its catch would answer 500.
Respond(r) ==
  /\ req[r].pc = "respond"
  /\ req' = [req EXCEPT ![r] =
       IF req[r].auditOk = "failed" /\ AuditErrorPropagates
       THEN Reply(r, 500, ErrorBody("audit insert failed"))
       ELSE Reply(r, SuccessStatus(req[r].kind), SuccessBody(r))]
  /\ UNCHANGED <<server, coll, audit_logs, nextOid, k8sCalls>>

\* ------------------------------------------------------------------- users
\* Fault variant: the handler answers 201 without awaiting an audit call.
PostUsersMut(r, role) ==
  /\ Arrives(r)
  /\ LET newUser == Doc(nextOid, NoStr, "", IF role = Absent THEN "USER" ELSE role)
         started == [req[r] EXCEPT !.kind = "POST_users", !.res = "users",
                       !.name = role, !.pc = "done", !.newId = nextOid,
                       !.snap = newUser, !.status = 201,
                       !.body = [tag |-> "doc", id |-> ObjectIdToString(nextOid),
                                 msg |-> "", n |-> 0]]
     IN /\ coll' = [coll EXCEPT !["users"] = @ \cup {newUser}]
        /\ req' = MarkStale([req EXCEPT ![r] = started], r, "users")
  /\ nextOid' = nextOid + 1
  /\ UNCHANGED <<server, audit_logs, k8sCalls>>

\* POST /api/users: insertOne, then audit, then 201.  role is body.role.
PostUsers(r, role) ==
  /\ Arrives(r)
  /\ LET newUser == Doc(nextOid, NoStr, "", IF role = Absent THEN "USER" ELSE role)
         started == [req[r] EXCEPT !.kind = "POST_users", !.res = "users",
                       !.name = role, !.pc = "audit", !.newId = nextOid,
                       !.snap = newUser,
                       !.aud = AuditArgs("create", "users", ObjectIdToString(nextOid))]
     IN /\ coll' = [coll EXCEPT !["users"] = @ \cup {newUser}]
        /\ req' = MarkStale([req EXCEPT ![r] = started], r, "users")
  /\ nextOid' = nextOid + 1
  /\ UNCHANGED <<server, audit_logs, k8sCalls>>

\* PUT /api/users/:id: findOneAndUpdate({_id}, {$set: body}), then audit, then 200.
PutUsers(r, id, role) ==
  /\ Arrives(r)
  /\ LET started == [req[r] EXCEPT !.kind = "PUT_users", !.res = "users",
                       !.id = id, !.name = role]
         old == FindOne("users", id)
         new == IF role = Absent THEN old ELSE [old EXCEPT !.role = role]
     IN IF FilterThrows("users", id)
        THEN /\ req' = [req EXCEPT ![r] =
                          [Reply(r, 500, ErrorBody("BSONError")) EXCEPT
                             !.kind = "PUT_users", !.res = "users", !.id = id, !.name = role]]
             /\ UNCHANGED <<server, coll>>
        ELSE IF old = NoDoc
        THEN /\ req' = [req EXCEPT ![r] =
                          [Reply(r, 404, ErrorBody("User not found")) EXCEPT
                             !.kind = "PUT_users", !.res = "users", !.id = id, !.name = role]]
             /\ UNCHANGED <<server, coll>>
        ELSE /\ coll' = [coll EXCEPT !["users"] = (@ \ {old}) \cup {new}]
             /\ req' = MarkStale(
                  [req EXCEPT ![r] = [started EXCEPT !.pc = "audit", !.snap = new,
                                        !.aud = AuditArgs("update", "users", id)]],
                  r, "users")
  /\ UNCHANGED <<server, audit_logs, nextOid, k8sCalls>>

\* ------------------------------------------------- DELETE /api/{resource}/:id
\* The error text of a 404 (one text stands for '<Entity> not found').
NotFoundMsg(res) == "not found"

\* First await of a DELETE handler: findOne for the audit snapshot.
DeleteFindOne(r, res, id) ==
  /\ Arrives(r)
  /\ res \in PlainDelete
  /\ LET started == [req[r] EXCEPT !.kind = "DELETE", !.res = res, !.id = id]
     IN req' = [req EXCEPT ![r] =
          IF FilterThrows(res, id)
          THEN [started EXCEPT !.pc = "done", !.status = 500, !.body = ErrorBody("BSONError")]
          ELSE [started EXCEPT !.pc = "deleteOne", !.snap = FindOne(res, id)]]
  /\ UNCHANGED <<server, coll, audit_logs, nextOid, k8sCalls>>

\* Fault variant: 404 is decided by the snapshot read, not by deletedCount.
DeleteBySnapshotMut(r) ==
  /\ req[r].kind = "DELETE"
  /\ req[r].pc = "deleteOne"
  /\ LET res == req[r].res
         hit == FindOne(res, req[r].id)
     IN IF req[r].snap = NoDoc
        THEN /\ req' = [req EXCEPT ![r] = Reply(r, 404, ErrorBody(NotFoundMsg(res)))]
             /\ UNCHANGED <<server, coll>>
        ELSE /\ coll' = [coll EXCEPT ![res] = @ \ {hit}]
             /\ req' = MarkStale(
                  [req EXCEPT ![r].pc = "audit",
                              ![r].aud = AuditArgs("delete", res, req[r].id)],
                  r, res)
  /\ UNCHANGED <<server, audit_logs, nextOid, k8sCalls>>

\* Fault variant: the audit call is made without looking at deletedCount.
DeleteDeleteOneMut(r) ==
  /\ req[r].kind = "DELETE"
  /\ req[r].pc = "deleteOne"
  /\ LET res == req[r].res
         hit == FindOne(res, req[r].id)
     IN /\ coll' = [coll EXCEPT ![res] = @ \ {hit}]
        /\ req' = MarkStale(
             [req EXCEPT ![r].pc = "audit",
                         ![r].aud = AuditArgs("delete", res, req[r].id)],
             r, res)
  /\ UNCHANGED <<server, audit_logs, nextOid, k8sCalls>>

\* Second await: deleteOne; deletedCount 0 answers 404, else the audit follows.
DeleteDeleteOne(r) ==
  /\ req[r].kind = "DELETE"
  /\ req[r].pc = "deleteOne"
  /\ LET res == req[r].res
         hit == FindOne(res, req[r].id)
     IN IF hit = NoDoc
        THEN /\ req' = [req EXCEPT ![r] = Reply(r, 404, ErrorBody(NotFoundMsg(res)))]
             /\ UNCHANGED <<server, coll>>
        ELSE /\ coll' = [coll EXCEPT ![res] = @ \ {hit}]
             /\ req' = MarkStale(
                  [req EXCEPT ![r].pc = "audit",
                              ![r].aud = AuditArgs("delete", res, req[r].id)],
                  r, res)
  /\ UNCHANGED <<server, audit_logs, nextOid, k8sCalls>>

\* ------------------------------------------------------------------- roles
\* Fault variant: a pre-check query that never finds a role.
ExistingRoleMut(name) == FALSE
\* findOne({ name }) of POST /api/roles: is there a role with this name?
ExistingRole(name) == \E d \in coll["roles"] : d.name = name
\* findOne({ name, _id: { $ne: id } }) of PUT /api/roles/:id.
ExistingOtherRole(name, id) ==
  \E d \in coll["roles"] : d.name = name /\ d._id # ObjectId(id)

\* POST /api/roles, up to its first await: a falsy name answers 400 at once,
\* otherwise the pre-check query runs and a hit answers 400.
PostRolesFindOne(r, name) ==
  /\ Arrives(r)
  /\ LET started == [req[r] EXCEPT !.kind = "POST_roles", !.res = "roles", !.name = name]
     IN req' = [req EXCEPT ![r] =
          IF name \in {"", Absent}
          THEN [started EXCEPT !.pc = "done", !.status = 400,
                               !.body = ErrorBody("Role name is required")]
          ELSE IF ExistingRole(name)
          THEN [started EXCEPT !.pc = "done", !.status = 400,
                               !.body = ErrorBody("Role with this name already exists")]
          ELSE [started EXCEPT !.pc = "insertOne"]]
  /\ UNCHANGED <<server, coll, audit_logs, nextOid, k8sCalls>>

\* POST /api/roles, second await: insertOne(newRole).
PostRolesInsertOne(r) ==
  /\ req[r].kind = "POST_roles"
  /\ req[r].pc = "insertOne"
  /\ LET newRole == Doc(nextOid, NoStr, req[r].name, "")
     IN /\ coll' = [coll EXCEPT !["roles"] = @ \cup {newRole}]
        /\ req' = MarkStale(
             [req EXCEPT ![r].pc = "audit", ![r].newId = nextOid, ![r].snap = newRole,
                         ![r].aud = AuditArgs("create", "roles", ObjectIdToString(nextOid))],
             r, "roles")
  /\ nextOid' = nextOid + 1
  /\ UNCHANGED <<server, audit_logs, k8sCalls>>

\* findOneAndUpdate({ _id }, { $set: updateData }) of PUT /api/roles/:id, for
\* request r with parameter id and body name.
RolesFindOneAndUpdate(r, rq, id, name) ==
  LET old == FindOne("roles", id)
      new == IF name = Absent THEN old ELSE [old EXCEPT !.name = name]
  IN IF FilterThrows("roles", id)
     THEN /\ req' = [req EXCEPT ![r] =
                       [rq EXCEPT !.pc = "done", !.status = 500, !.body = ErrorBody("BSONError")]]
          /\ UNCHANGED <<server, coll>>
     ELSE IF old = NoDoc
     THEN /\ req' = [req EXCEPT ![r] =
                       [rq EXCEPT !.pc = "done", !.status = 404, !.body = ErrorBody("Role not found")]]
          /\ UNCHANGED <<server, coll>>
     ELSE /\ coll' = [coll EXCEPT !["roles"] = (@ \ {old}) \cup {new}]
          /\ req' = MarkStale(
               [req EXCEPT ![r] = [rq EXCEPT !.pc = "audit", !.snap = new,
                                     !.aud = AuditArgs("update", "roles", id)]],
               r, "roles")

\* PUT /api/roles/:id with a truthy body name, first await: the pre-check query.
PutRolesFindOne(r, id, name) ==
  /\ Arrives(r)
  /\ name \notin {"", Absent}
  /\ LET started == [req[r] EXCEPT !.kind = "PUT_roles", !.res = "roles",
                       !.id = id, !.name = name]
     IN req' = [req EXCEPT ![r] =
          IF ObjectIdThrows(id)
          THEN [started EXCEPT !.pc = "done", !.status = 500, !.body = ErrorBody("BSONError")]
          ELSE IF ExistingOtherRole(name, id)
          THEN [started EXCEPT !.pc = "done", !.status = 400,
                               !.body = ErrorBody("Role with this name already exists")]
          ELSE [started EXCEPT !.pc = "findOneAndUpdate"]]
  /\ UNCHANGED <<server, coll, audit_logs, nextOid, k8sCalls>>

\* PUT /api/roles/:id, the update after a passed pre-check.
PutRolesUpdate(r) ==
  /\ req[r].kind = "PUT_roles"
  /\ req[r].pc = "findOneAndUpdate"
  /\ RolesFindOneAndUpdate(r, req[r], req[r].id, req[r].name)
  /\ UNCHANGED <<server, audit_logs, nextOid, k8sCalls>>

\* PUT /api/roles/:id whose body name is falsy (missing, or the empty string):
\* `if (updateData.name)` skips the pre-check and the update is the first await.
PutRolesUnchecked(r, id, name) ==
  /\ Arrives(r)
  /\ name \in {"", Absent}
  /\ RolesFindOneAndUpdate(r, [req[r] EXCEPT !.kind = "PUT_roles", !.res = "roles",
                                 !.id = id, !.name = name], id, name)
  /\ UNCHANGED <<server, audit_logs, nextOid, k8sCalls>>

\* Fault variants: a count that sees no user; a guard that tolerates one user.
UsersWithRoleMut(name) == 0
RoleInUseMut(count) == count > 1
\* countDocuments({ role: name }) on users.
UsersWithRole(name) == Cardinality({u \in coll["users"] : u.role = name})
\* `if (usersWithRole > 0)`: the guard of DELETE /api/roles/:id.
RoleInUse(count) == count > 0

\* DELETE /api/roles/:id, first await: findOne({ _id }).
DeleteRolesFindOne(r, id) ==
  /\ Arrives(r)
  /\ LET started == [req[r] EXCEPT !.kind = "DELETE_roles", !.res = "roles", !.id = id]
         role == FindOne("roles", id)
     IN req' = [req EXCEPT ![r] =
          IF ObjectIdThrows(id)
          THEN [started EXCEPT !.pc = "done", !.status = 500, !.body = ErrorBody("BSONError")]
          ELSE IF role # NoDoc
          THEN [started EXCEPT !.pc = "countDocuments", !.snap = role]
          ELSE [started EXCEPT !.pc = "deleteOne"]]
  /\ UNCHANGED <<server, coll, audit_logs, nextOid, k8sCalls>>

\* DELETE /api/roles/:id, second await (only if the role was found): count the
\* users assigned the role; a nonzero count answers 400 with the count.
DeleteRolesCountDocuments(r) ==
  /\ req[r].kind = "DELETE_roles"
  /\ req[r].pc = "countDocuments"
  /\ LET usersWithRole == UsersWithRole(req[r].snap.name)
     IN req' = [req EXCEPT ![r] =
          IF RoleInUse(usersWithRole)
          THEN [req[r] EXCEPT !.pc = "done", !.status = 400, !.cnt = usersWithRole,
                  !.body = [tag |-> "error", id |-> NoStr, n |-> usersWithRole,
                            msg |-> "Cannot delete role. n user(s) are assigned this role."]]
          ELSE [req[r] EXCEPT !.pc = "deleteOne", !.cnt = usersWithRole]]
  /\ UNCHANGED <<server, coll, audit_logs, nextOid, k8sCalls>>

\* DELETE /api/roles/:id, last store call: deleteOne({ _id }).
DeleteRolesDeleteOne(r) ==
  /\ req[r].kind = "DELETE_roles"
  /\ req[r].pc = "deleteOne"
  /\ LET hit == FindOne("roles", req[r].id)
     IN IF hit = NoDoc
        THEN /\ req' = [req EXCEPT ![r] = Reply(r, 404, ErrorBody("Role not found"))]
             /\ UNCHANGED <<server, coll>>
        ELSE /\ coll' = [coll EXCEPT !["roles"] = @ \ {hit}]
             /\ req' = MarkStale(
                  [req EXCEPT ![r].pc = "audit",
                              ![r].aud = AuditArgs("delete", "roles", req[r].id)],
                  r, "roles")
  /\ UNCHANGED <<server, audit_logs, nextOid, k8sCalls>>

\* ------------------------------------------------------------------ agents
\* generateAgentId(): 'agent_' and 21 random characters, an id no agent has yet.
generateAgentId == Str("app", nextOid)

\* A request body of the agent routes: a client-supplied id and _id (NoStr:
\* none) and a name.
AgentBody(id, oid, name) == [id |-> id, _id |-> oid, name |-> name]
\* Fault variant: the body is used as it came.
StripIdsMut(body) == body
\* const { id: _, _id: __, ...rest } = req.body
StripIds(body) == [body EXCEPT !.id = NoStr, !._id = NoStr]
\* { $set: data } on an agent document, for the fields the model keeps.
SetAgent(doc, data) ==
  [doc EXCEPT !.appId = IF data.id = NoStr THEN @ ELSE data.id,
              !.name = IF data.name = Absent THEN @ ELSE data.name]

\* POST /api/agents: a falsy name answers 400; else insertOne of a new agent
\* with a generated id, audit, 201.
PostAgentsBody(r, body) ==
  /\ Arrives(r)
  /\ LET agentData == StripIds(body)
         started == [req[r] EXCEPT !.kind = "POST_agents", !.res = "agents",
                       !.name = agentData.name, !.query = [body |-> body]]
         newAgent == Doc(nextOid, generateAgentId, agentData.name, "")
     IN IF agentData.name \in {"", Absent}
        THEN /\ req' = [req EXCEPT ![r] =
                          [started EXCEPT !.pc = "done", !.status = 400,
                                          !.body = ErrorBody("Agent name is required")]]
             /\ UNCHANGED <<server, coll, nextOid>>
        ELSE /\ coll' = [coll EXCEPT !["agents"] = @ \cup {newAgent}]
             /\ nextOid' = nextOid + 1
             /\ req' = [req EXCEPT ![r] =
                          [started EXCEPT !.pc = "audit", !.newId = nextOid, !.snap = newAgent,
                                          !.aud = AuditArgs("create", "agents", newAgent.appId)]]
  /\ UNCHANGED <<server, audit_logs, k8sCalls>>

\* POST /api/agents with a body that carries no id fields.
PostAgents(r, name) == PostAgentsBody(r, AgentBody(NoStr, NoStr, name))

\* PUT /api/agents/:id: findOneAndUpdate({ id }, { $set: updateData }), audit, 200.
PutAgentsBody(r, id, body) ==
  /\ Arrives(r)
  /\ LET updateData == StripIds(body)
         started == [req[r] EXCEPT !.kind = "PUT_agents", !.res = "agents",
                       !.id = id, !.name = updateData.name, !.query = [body |-> body]]
         old == FindOne("agents", id)
         new == SetAgent(old, updateData)
     IN IF old = NoDoc
        THEN /\ req' = [req EXCEPT ![r] =
                          [started EXCEPT !.pc = "done", !.status = 404,
                                          !.body = ErrorBody("Agent not found")]]
             /\ UNCHANGED <<server, coll>>
        ELSE /\ coll' = [coll EXCEPT !["agents"] = (@ \ {old}) \cup {new}]
             /\ req' = [req EXCEPT ![r] =
                          [started EXCEPT !.pc = "audit", !.snap = new,
                                          !.aud = AuditArgs("update", "agents", id)]]
  /\ UNCHANGED <<server, audit_logs, nextOid, k8sCalls>>

\* PUT /api/agents/:id with a body that carries no id fields.
PutAgents(r, id, name) == PutAgentsBody(r, id, AgentBody(NoStr, NoStr, name))

\* -------------------------------------------------------------- audit logs
AuditIdParams ==
  {ObjectIdToString(a._id) : a \in audit_logs} \cup {ObjectIdToString(99), BadId}

\* Fault variant: a deletion of an audit record that is itself audited.
DeleteAuditLogMut(r, id) ==
  /\ Arrives(r)
  /\ ~ObjectIdThrows(id)
  /\ \E a \in audit_logs : a._id = ObjectId(id)
  /\ audit_logs' = {a \in audit_logs : a._id # ObjectId(id)} \cup
       {[_id |-> nextOid, action |-> "delete", resource |-> "audit_logs",
         resourceId |-> id, req |-> r]}
  /\ req' = [req EXCEPT ![r] =
       [req[r] EXCEPT !.kind = "DELETE_audit", !.res = "audit_logs", !.id = id,
          !.pc = "done", !.status = 200,
          !.body = [tag |-> "id", id |-> id, msg |-> "", n |-> 0]]]
  /\ UNCHANGED <<server, coll, nextOid, k8sCalls>>
\* DELETE /api/audit-logs/:id: deleteOne, 404 or 200; no audit call.
DeleteAuditLog(r, id) ==
  /\ Arrives(r)
  /\ LET started == [req[r] EXCEPT !.kind = "DELETE_audit", !.res = "audit_logs", !.id = id]
         hit == {a \in audit_logs : a._id = ObjectId(id)}
     IN IF ObjectIdThrows(id)
        THEN /\ req' = [req EXCEPT ![r] =
                          [started EXCEPT !.pc = "done", !.status = 500,
                                          !.body = ErrorBody("BSONError")]]
             /\ UNCHANGED <<server, audit_logs>>
        ELSE IF hit = {}
        THEN /\ req' = [req EXCEPT ![r] =
                          [started EXCEPT !.pc = "done", !.status = 404,
                                          !.body = ErrorBody("Audit log not found")]]
             /\ UNCHANGED <<server, audit_logs>>
        ELSE /\ audit_logs' = audit_logs \ hit
             /\ req' = [req EXCEPT ![r] =
                          [started EXCEPT !.pc = "done", !.status = 200,
                             !.body = [tag |-> "id", id |-> id, msg |-> "", n |-> 0]]]
  /\ UNCHANGED <<server, coll, nextOid, k8sCalls>>

\* ------------------------------------------------- orchestration control plane
\* Characters of the names and ids given to the pod and deployment routes.
Chars == {"a", "b", ":"}
RECURSIVE StringsUpTo(_)
StringsUpTo(n) ==
  IF n = 0 THEN {<<>>}
  ELSE StringsUpTo(n - 1) \cup
       {Append(w, c) : w \in {x \in StringsUpTo(n - 1) : Len(x) = n - 1}, c \in Chars}

\* String.prototype.split('::'): cut at each leftmost occurrence of the separator.
RECURSIVE Split(_)
Split(w) ==
  IF \E i \in 1..(Len(w) - 1) : w[i] = ":" /\ w[i + 1] = ":"
  THEN LET i == CHOOSE k \in 1..(Len(w) - 1) :
                  /\ w[k] = ":" /\ w[k + 1] = ":"
                  /\ \A j \in 1..(k - 1) : ~(w[j] = ":" /\ w[j + 1] = ":")
       IN <<SubSeq(w, 1, i - 1)>> \o Split(SubSeq(w, i + 2, Len(w)))
  ELSE <<w>>
\* `${namespace}::${name}`: the id formatPodInfo and formatDeploymentInfo give.
CompositeId(namespace, name) ==
  [t |-> "cid", v |-> 0, s |-> namespace \o <<":", ":">> \o name]

\* Fault variant of the part-count guard: ids of three and more parts pass.
WrongPartCountMut(parts) == Len(parts) < 2
\* `parts.length !== 2`, then `!namespace || !name`: the handlers' 400 guards.
WrongPartCount(parts) == Len(parts) # 2
EmptyPart(parts) == parts[1] = <<>> \/ parts[2] = <<>>

\* What the cluster holds: one pod and one deployment, both a/b.
ClusterObjects == {[namespace |-> <<"a">>, name |-> <<"b">>]}
\* A call for one object fails when the object does not exist, and may fail
\* anyway (the control plane is unreachable or refuses).
CallOutcomes(namespace, name) ==
  IF [namespace |-> namespace, name |-> name] \in ClusterObjects
  THEN {TRUE, FALSE} ELSE {FALSE}
K8sCall(r, op, namespace, name) ==
  [op |-> op, namespace |-> namespace, name |-> name, req |-> r]

\* GET /api/pods/:id (op = readNamespacedPod) and GET /api/deployments/:id
\* (op = readNamespacedDeployment): split, guard, one control-plane read.
GetComposite(r, kind, op, id) ==
  /\ Arrives(r)
  /\ LET started == [req[r] EXCEPT !.kind = kind, !.res = "k8s",
                       !.id = [t |-> "cid", v |-> 0, s |-> id]]
         parts == Split(id)
         bad == [started EXCEPT !.pc = "done", !.status = 400,
                                !.body = ErrorBody("Invalid ID format")]
     IN IF WrongPartCount(parts)
        THEN req' = [req EXCEPT ![r] = bad] /\ UNCHANGED <<server, k8sCalls>>
        ELSE IF EmptyPart(parts)
        THEN req' = [req EXCEPT ![r] = bad] /\ UNCHANGED <<server, k8sCalls>>
        ELSE \E ok \in CallOutcomes(parts[1], parts[2]) :
               /\ k8sCalls' = k8sCalls \cup {K8sCall(r, op, parts[1], parts[2])}
               /\ req' = [req EXCEPT ![r] =
                    IF ok
                    THEN [started EXCEPT !.pc = "done", !.status = 200,
                            !.body = [tag |-> "doc", id |-> CompositeId(parts[1], parts[2]),
                                      msg |-> "", n |-> 0]]
                    ELSE [started EXCEPT !.pc = "done", !.status = 500,
                            !.body = ErrorBody("control plane error")]]
  /\ UNCHANGED <<server, coll, audit_logs, nextOid>>

\* POST /api/deployments/:id/restart: split, guard, patchNamespacedDeployment,
\* then audit with the id of the returned deployment, then 200.
RestartDeployment(r, id) ==
  /\ Arrives(r)
  /\ LET started == [req[r] EXCEPT !.kind = "POST_restart", !.res = "deployments",
                       !.id = [t |-> "cid", v |-> 0, s |-> id]]
         parts == Split(id)
         bad == [started EXCEPT !.pc = "done", !.status = 400,
                                !.body = ErrorBody("Invalid ID format")]
     IN IF WrongPartCount(parts)
        THEN req' = [req EXCEPT ![r] = bad] /\ UNCHANGED <<server, k8sCalls>>
        ELSE IF EmptyPart(parts)
        THEN req' = [req EXCEPT ![r] = bad] /\ UNCHANGED <<server, k8sCalls>>
        ELSE \E ok \in CallOutcomes(parts[1], parts[2]) :
               /\ k8sCalls' = k8sCalls \cup
                    {K8sCall(r, "patchNamespacedDeployment", parts[1], parts[2])}
               /\ req' = [req EXCEPT ![r] =
                    IF ok
                    THEN [started EXCEPT !.pc = "audit",
                            !.aud = AuditArgs("restart", "deployments",
                                              CompositeId(parts[1], parts[2]))]
                    ELSE [started EXCEPT !.pc = "done", !.status = 500,
                            !.body = ErrorBody("control plane error")]]
  /\ UNCHANGED <<server, coll, audit_logs, nextOid>>

\* Ids the store-side runs give to the restart route.
RestartIds == {<<"a", ":", ":", "b">>, <<"a", ":", ":", "a">>, <<"a", "b">>}

\* ------------------------------------------------------ kubectl commands
\* A command line is the sequence of its tokens, command.trim().split(/\s+/):
\* <<>> is the empty string (falsy), <<"">> a line of blanks only.
Verbs == {"get", "describe", "logs", "top", "explain", "delete"}
ResourceTypes == {"pods", "pod", "deployments", "deployment", "services", "nodes"}
ResourceNames == {"b", "zz"}
Commands ==
  {<<>>, <<"">>} \cup {<<v>> : v \in Verbs}
    \cup {<<v, t>> : v \in Verbs, t \in ResourceTypes \cup ResourceNames}
    \cup {<<v, t, n>> : v \in Verbs, t \in ResourceTypes, n \in ResourceNames}
\* The allow list POST /api/kubectl/execute passes.
allowedCommands == {"get", "describe", "logs", "top", "explain"}
Token(w) == [t |-> "token", v |-> 0, s |-> <<w>>]

\* How a step of the command path ends: it throws msg (quoting what), or it
\* returns; call is the control-plane operation it reached, "none" if none, and
\* target the object name the call was for.
Thrown(msg, what, call, target) ==
  [threw |-> TRUE, msg |-> msg, what |-> what, call |-> call, target |-> target]
Returned(call, target) ==
  [threw |-> FALSE, msg |-> "", what |-> NoStr, call |-> call, target |-> target]

InCluster(namespace, name) ==
  [namespace |-> namespace, name |-> <<name>>] \in ClusterObjects

\* handleGetCommand: list the namespace, then look the name up in the items.
handleGetCommand(resourceType, resourceName, namespace, up) ==
  LET op == CASE resourceType = "pods" -> "listNamespacedPod"
              [] resourceType = "deployments" -> "listNamespacedDeployment"
              [] resourceType \in {"services", "svc"} -> "listNamespacedService"
              [] OTHER -> "none"
      found == op # "listNamespacedService" /\ InCluster(namespace, resourceName)
  IN IF op = "none"
     THEN Thrown("Resource type not supported", Token(resourceType), "none", <<>>)
     ELSE IF ~up THEN Thrown("control plane error", NoStr, op, <<>>)
     ELSE IF resourceName # Absent /\ ~found
     THEN Thrown("not found", Token(resourceName), op, <<>>)
     ELSE Returned(op, <<>>)

\* handleDescribeCommand: a name is required; pod and deployment are read.
handleDescribeCommand(resourceType, resourceName, namespace, up) ==
  LET op == CASE resourceType = "pod" -> "readNamespacedPod"
              [] resourceType = "deployment" -> "readNamespacedDeployment"
              [] OTHER -> "none"
  IN IF resourceName = Absent
     THEN Thrown("Resource name is required for describe command", NoStr, "none", <<>>)
     ELSE IF op = "none"
     THEN Thrown("Resource type not supported for describe", Token(resourceType), "none", <<>>)
     ELSE IF ~(up /\ InCluster(namespace, resourceName))
     THEN Thrown("control plane error", NoStr, op, <<resourceName>>)
     ELSE Returned(op, <<resourceName>>)

\* handleLogsCommand(podName, namespace): the second token is the pod name.
handleLogsCommand(podName, namespace, up) ==
  IF podName = Absent
  THEN Thrown("Pod name is required for logs command", NoStr, "none", <<>>)
  ELSE IF ~(up /\ InCluster(namespace, podName))
  THEN Thrown("control plane error", NoStr, "readNamespacedPodLog", <<podName>>)
  ELSE Returned("readNamespacedPodLog", <<podName>>)

\* handleExplainCommand: a fixed text, no call.
handleExplainCommand(resourceType) == Returned("none", <<>>)

\* executeK8sCommand: the switch over the verb; errors are rethrown.
executeK8sCommand(command, resourceType, resourceName, namespace, up) ==
  CASE command = "get" -> handleGetCommand(resourceType, resourceName, namespace, up)
    [] command = "describe" -> handleDescribeCommand(resourceType, resourceName, namespace, up)
    [] command = "logs" -> handleLogsCommand(resourceType, namespace, up)
    [] command = "explain" -> handleExplainCommand(resourceType)
    [] OTHER -> Thrown("Command not implemented", Token(command), "none", <<>>)

\* The catch block of executeKubectlCommand builds its result from command and
\* namespace; namespace is a const declared inside the try block, so reading it
\* in the catch block throws ReferenceError and the async function rejects with
\* that error instead of returning {output: '', error, exitCode: 1}.
KubectlCatch(thrown) ==
  [rejected |-> TRUE, output |-> "", error |-> "namespace is not defined",
   what |-> NoStr, exitCode |-> 1, call |-> thrown.call, target |-> thrown.target]

\* executeKubectlCommand(command, {namespace, allowedCommands}); up says whether
\* the control plane answers the call the command makes, if it makes one.
executeKubectlCommand(command, namespace, allowed, up) ==
  LET mainCommand == command[1]
      resourceType == IF Len(command) >= 2 THEN command[2] ELSE Absent
      resourceName == IF Len(command) >= 3 THEN command[3] ELSE Absent
      step == IF mainCommand \notin allowed
              THEN Thrown("Command is not allowed", Token(mainCommand), "none", <<>>)
              ELSE executeK8sCommand(mainCommand, resourceType, resourceName, namespace, up)
  IN IF step.threw
     THEN KubectlCatch(step)
     ELSE [rejected |-> FALSE, output |-> "text", error |-> "", what |-> NoStr,
           exitCode |-> 0, call |-> step.call, target |-> step.target]

\* POST /api/kubectl/execute {command, namespace}: 400 without a command; a
\* rejected executeKubectlCommand lands in the handler's catch (500); otherwise
\* the 'execute' audit follows and then the result is sent.
KubectlExecute(r, command, namespace) ==
  /\ Arrives(r)
  /\ LET started == [req[r] EXCEPT !.kind = "POST_kubectl", !.res = "kubectl-commands",
                       !.id = [t |-> "exec", v |-> 0, s |-> namespace \o <<"::">> \o command]]
     IN IF command = <<>>
        THEN /\ req' = [req EXCEPT ![r] =
                          [started EXCEPT !.pc = "done", !.status = 400,
                                          !.body = ErrorBody("Command is required")]]
             /\ UNCHANGED <<server, k8sCalls>>
        ELSE \E up \in BOOLEAN :
               LET result == executeKubectlCommand(command, namespace, allowedCommands, up)
               IN /\ k8sCalls' = k8sCalls \cup
                       (IF result.call = "none" THEN {}
                        ELSE {K8sCall(r, result.call, namespace, result.target)})
                  /\ req' = [req EXCEPT ![r] =
                       IF result.rejected
                       THEN [started EXCEPT !.pc = "done", !.status = 500,
                               !.body = ErrorAbout(result.error, result.what)]
                       ELSE [started EXCEPT !.pc = "audit",
                               !.result = [tag |-> "result", id |-> result.what,
                                           msg |-> result.error, n |-> result.exitCode],
                               !.aud = AuditArgs("execute", "kubectl-commands", started.id)]]
  /\ UNCHANGED <<server, coll, audit_logs, nextOid>>

\* body.namespace, 'default' when the body has none.
Namespaces == {<<"a">>, <<"default">>}

\* ------------------------------------------------------ list and get by id
\* The id a list endpoint gives a document.  users and roles: the store-native
\* key; conversations: conversationId || _id; the other lists build
\* {id: _id.toString(), _id, ...doc}, where a document's own id field (agents
\* have one) overrides the first entry.
ListId(res, d) ==
  CASE res \in {"users", "roles"} -> ObjectIdToString(d._id)
    [] res = "conversations" ->
         IF d.appId # NoStr THEN d.appId ELSE ObjectIdToString(d._id)
    [] res = "agents" ->
         IF d.appId # NoStr THEN d.appId ELSE ObjectIdToString(d._id)
    [] OTHER -> ObjectIdToString(d._id)

\* GET /api/{resource} (first page, all documents fit): id and _id of each item.
GetList(r, res) ==
  /\ Arrives(r)
  /\ req' = [req EXCEPT ![r] =
       [req[r] EXCEPT !.kind = "LIST", !.res = res, !.pc = "done", !.status = 200,
          !.list = {[id |-> ListId(res, d), _id |-> ObjectIdToString(d._id)] : d \in coll[res]}]]
  /\ UNCHANGED <<server, coll, audit_logs, nextOid, k8sCalls>>

\* GET /api/{resource}/:id: findOne by the resource's filter; null answers 404.
GetById(r, res, id) ==
  /\ Arrives(r)
  /\ LET started == [req[r] EXCEPT !.kind = "GET", !.res = res, !.id = id, !.pc = "done"]
         doc == FindOne(res, id)
     IN req' = [req EXCEPT ![r] =
          IF FilterThrows(res, id)
          THEN [started EXCEPT !.status = 500, !.body = ErrorBody("BSONError")]
          ELSE IF doc = NoDoc
          THEN [started EXCEPT !.status = 404, !.body = ErrorBody(NotFoundMsg(res))]
          ELSE [started EXCEPT !.status = 200, !.snap = doc,
                  !.body = [tag |-> "doc", id |-> ListId(res, doc), msg |-> "", n |-> 0]]]
  /\ UNCHANGED <<server, coll, audit_logs, nextOid, k8sCalls>>

\* Ids a client has seen in the list responses for res.
ListedIds(res) ==
  {x.id : x \in UNION {req[q].list : q \in {p \in ReqIds : req[p].res = res}}}

Next ==
  \E r \in ReqIds :
    \/ \E role \in RoleNames \cup {Absent} : PostUsers(r, role)
    \/ \E id \in IdParams("users"), role \in RoleNames \cup {Absent} : PutUsers(r, id, role)
    \/ \E res \in PlainDelete : \E id \in IdParams(res) : DeleteFindOne(r, res, id)
    \/ DeleteDeleteOne(r)
    \/ \E name \in NewRoleNames \cup {Absent} : PostRolesFindOne(r, name)
    \/ PostRolesInsertOne(r)
    \/ \E id \in IdParams("roles"), name \in NewRoleNames : PutRolesFindOne(r, id, name)
    \/ PutRolesUpdate(r)
    \/ \E id \in IdParams("roles"), name \in {"", Absent} : PutRolesUnchecked(r, id, name)
    \/ \E id \in IdParams("roles") : DeleteRolesFindOne(r, id)
    \/ DeleteRolesCountDocuments(r)
    \/ DeleteRolesDeleteOne(r)
    \/ \E name \in {"helper", Absent} : PostAgents(r, name)
    \/ \E id \in IdParams("agents"), name \in {"helper2", Absent} : PutAgents(r, id, name)
    \/ \E id \in AuditIdParams : DeleteAuditLog(r, id)
    \/ \E id \in RestartIds : RestartDeployment(r, id)
    \/ createAuditLog(r)
    \/ Respond(r)

Spec == Init /\ [][Next]_vars

\* The orchestration routes, one request at a time, over every id and command.
NextK8s ==
  LET r == 1
  IN \/ \E id \in StringsUpTo(MaxIdLen) \ {<<>>} :
          \/ GetComposite(r, "GET_pod", "readNamespacedPod", id)
          \/ GetComposite(r, "GET_deployment", "readNamespacedDeployment", id)
          \/ RestartDeployment(r, id)
     \/ \E command \in Commands, namespace \in Namespaces :
          KubectlExecute(r, command, namespace)
     \/ createAuditLog(r)
     \/ Respond(r)

SpecK8s == Init /\ [][NextK8s]_vars

\* Requests served one at a time: a request arrives only when no other is in
\* flight.
NextSerial ==
  /\ Next
  /\ \A r \in ReqIds :
       (req[r].pc = "idle" /\ req'[r].pc # "idle")
         => \A q \in ReqIds \ {r} : req[q].pc \in {"idle", "done"}

SpecSerial == Init /\ [][NextSerial]_vars

\* The read routes over stores that hold agents with and without an id field
\* and conversations with and without a conversationId.
InitIdentity ==
  /\ \E a \in {Str("app", 4), NoStr}, c \in {Str("conv", 5), NoStr} :
       coll = [InitColl EXCEPT !["agents"] = {Doc(4, a, "helper", "")},
                               !["conversations"] = {Doc(5, c, "", "")}]
  /\ audit_logs = {}
  /\ nextOid = 10
  /\ k8sCalls = {}
  /\ req = [r \in ReqIds |-> IdleReq]
  /\ server = Serving

NextIdentity ==
  \E r \in ReqIds, res \in Resources :
    \/ GetList(r, res)
    \/ \E id \in ListedIds(res) \cup {BadId} : GetById(r, res, id)

SpecIdentity == InitIdentity /\ [][NextIdentity]_vars

\* ------------------------------------------------ properties: orchestration
CompositeKinds == {"GET_pod", "GET_deployment", "POST_restart"}
CallsOf(r) == {c \in k8sCalls : c.req = r}
AuditsOf(r) == {a \in audit_logs : a.req = r}
\* The command line and namespace request r posted to /api/kubectl/execute.
CommandOf(r) == SubSeq(req[r].id.s, 3, Len(req[r].id.s))

\* C8: a command whose first token is outside the allow list is answered with
\* an error that names that token as not allowed, and no control-plane call is
\* made for it.
C8_DisallowedVerbNamed ==
  \A r \in ReqIds :
    ( /\ req[r].kind = "POST_kubectl"
      /\ req[r].pc = "done"
      /\ CommandOf(r) # <<>>
      /\ CommandOf(r)[1] \notin allowedCommands )
    => /\ req[r].body = ErrorAbout("Command is not allowed", Token(CommandOf(r)[1]))
       /\ CallsOf(r) = {}

\* C9: executeKubectlCommand never rejects: every command the handler passes to
\* it comes back as a result object, which the handler sends (after the audit);
\* for a command that fails the result has an error text and a nonzero exit
\* code.
C9_ExecuteAlwaysReturns ==
  \A r \in ReqIds :
    ( /\ req[r].kind = "POST_kubectl"
      /\ req[r].pc = "done"
      /\ CommandOf(r) # <<>> )
    => /\ req[r].body.tag = "result"
       /\ req[r].status = 200
       /\ (req[r].body.n # 0 => req[r].body.msg # "")
       /\ (CommandOf(r)[1] \notin {"get", "describe", "logs", "explain"}
             => req[r].body.n # 0)

\* C10: the pod, deployment and restart routes split the id at '::'.  Unless
\* the split gives exactly two non-empty parts the answer is 400 with no
\* control-plane call and no audit record; otherwise the one call made is for
\* namespace = first part, name = second part.
C10_CompositeIdSplit ==
  \A r \in ReqIds :
    (req[r].kind \in CompositeKinds /\ req[r].pc # "idle")
    => LET parts == Split(req[r].id.s)
       IN IF Len(parts) = 2 /\ parts[1] # <<>> /\ parts[2] # <<>>
          THEN /\ Cardinality(CallsOf(r)) = 1
               /\ \A c \in CallsOf(r) : c.namespace = parts[1] /\ c.name = parts[2]
          ELSE /\ req[r].pc = "done"
               /\ req[r].status = 400
               /\ CallsOf(r) = {}
               /\ AuditsOf(r) = {}
               /\ req[r].auditOk = "none"

\* C10 witness: a restart with a well-formed id went through to the control
\* plane and was audited.
C10_Witness ==
  \E r \in ReqIds :
    /\ req[r].kind = "POST_restart"
    /\ req[r].pc = "done"
    /\ req[r].status = 200
    /\ Len(Split(req[r].id.s)) = 2
    /\ AuditsOf(r) # {}
    /\ \E c \in CallsOf(r) : c.namespace = <<"a">> /\ c.name = <<"b">>

\* ------------------------------------------------------ properties: identity
\* C7: an id that a list response gave for a resource, sent to the same
\* resource's get-by-id route while the document is stored, is answered 200 with
\* the document whose store-native key the list item carried.
C7_ListIdRoundTrip ==
  \A r1 \in ReqIds, r2 \in ReqIds :
    ( /\ req[r1].kind = "LIST" /\ req[r1].pc = "done"
      /\ req[r2].kind = "GET" /\ req[r2].pc = "done"
      /\ req[r2].res = req[r1].res )
    => \A x \in req[r1].list :
         x.id = req[r2].id
           => /\ req[r2].status = 200
              /\ ObjectIdToString(req[r2].snap._id) = x._id

\* --------------------------------------------------- properties: audit trail
AuditedKinds ==
  {"POST_users", "PUT_users", "DELETE", "POST_roles", "PUT_roles", "DELETE_roles",
   "POST_agents", "PUT_agents", "POST_restart"}
Succeeded(r) == req[r].pc = "done" /\ req[r].status \in {200, 201}
\* An audited mutation call that returned success.
Audited(r) == req[r].kind \in AuditedKinds /\ Succeeded(r)
\* The action, resource and resourceId that describe the operation of request
\* r: the verb of its route, its resource, and the id of the entity it created
\* (as its response gives it) or was addressed to.
ExpectedAction(r) ==
  CASE req[r].kind \in {"POST_users", "POST_roles", "POST_agents"} -> "create"
    [] req[r].kind \in {"PUT_users", "PUT_roles", "PUT_agents"} -> "update"
    [] req[r].kind \in {"DELETE", "DELETE_roles"} -> "delete"
    [] req[r].kind = "POST_restart" -> "restart"
    [] OTHER -> "none"
ExpectedResourceId(r) ==
  IF req[r].kind \in {"POST_users", "POST_roles", "POST_agents"}
  THEN req[r].body.id ELSE req[r].id
MatchingRecords(r) ==
  {a \in audit_logs : /\ a.req = r
                      /\ a.action = ExpectedAction(r)
                      /\ a.resource = req[r].res
                      /\ a.resourceId = ExpectedResourceId(r)}
\* The record request r wrote was removed through DELETE /api/audit-logs/:id.
Purged(r) ==
  \E q \in ReqIds : /\ req[q].kind = "DELETE_audit"
                    /\ req[q].status = 200
                    /\ req[q].id = ObjectIdToString(req[r].auditId)

\* C1 as stated: after any requests, every audited mutation call that returned
\* success and whose audit insert did not fail has exactly one record in the
\* audit store whose action, resource and resourceId match it.
C1_ExactlyOneRecord ==
  \A r \in ReqIds :
    (Audited(r) /\ req[r].auditOk # "failed")
      => Cardinality(MatchingRecords(r)) = 1

\* C1 amended: an audited mutation call that returned success and whose audit
\* insert did not fail wrote exactly one record, matching the operation, and
\* that record is in the audit store unless a DELETE /api/audit-logs/:id for its
\* key has removed it; it never has more than one.
C1_OneRecordUnlessPurged ==
  \A r \in ReqIds :
    (Audited(r) /\ req[r].auditOk # "failed")
      => /\ req[r].auditOk = "ok"
         /\ AuditsOf(r) \subseteq MatchingRecords(r)
         /\ \/ Cardinality(MatchingRecords(r)) = 1
            \/ MatchingRecords(r) = {} /\ Purged(r)

\* C1 witness: an audited call succeeded and its one record is in the store.
C1_Witness ==
  \E r \in ReqIds :
    /\ Audited(r)
    /\ req[r].auditOk = "ok"
    /\ Cardinality(MatchingRecords(r)) = 1

\* C2: a request whose audit write failed is answered with the status and body
\* of the success path, the same function of the request as when the audit
\* write succeeds; and neither the failing audit step nor the response step
\* after it changes a collection (nothing is rolled back).
C2_AuditFailureInvisible ==
  /\ [](\A r \in ReqIds :
          (req[r].pc = "done" /\ req[r].auditOk \in {"ok", "failed"})
            => /\ req[r].status = SuccessStatus(req[r].kind)
               /\ req[r].body = SuccessBody(r))
  /\ [][\A r \in ReqIds :
          ( \/ (req[r].pc = "audit" /\ req'[r].auditOk = "failed")
            \/ (req[r].pc = "respond" /\ req[r].auditOk = "failed" /\ req'[r].pc = "done") )
          => coll' = coll /\ k8sCalls' = k8sCalls]_vars

\* C2 witness: a mutation whose audit write failed was answered with success.
C2_Witness ==
  \E r \in ReqIds :
    /\ Audited(r)
    /\ req[r].auditOk = "failed"
    /\ AuditsOf(r) = {}

\* -------------------------------------------------------- properties: roles
RoleWriters == {"POST_roles", "PUT_roles"}
RolesNamed(name) == {d \in coll["roles"] : d.name = name}

\* C3 as stated: at no time do two distinct role documents have the same name.
C3_RoleNamesUnique ==
  \A d1 \in coll["roles"], d2 \in coll["roles"] : d1 # d2 => d1.name # d2.name

\* What does hold of role names: two distinct role documents share a name only
\* if the name is empty (an update to an empty name is not checked), or a create
\* or update to that name had another request write roles between its pre-check
\* and its own write.
RoleNamesUniqueUnlessRaced ==
  \A d1 \in coll["roles"], d2 \in coll["roles"] :
    (d1 # d2 /\ d1.name = d2.name /\ d1.name # "")
      => \E r \in ReqIds : /\ req[r].kind \in RoleWriters
                           /\ req[r].name = d1.name
                           /\ req[r].stale

\* Request r is the last one that arrived.
Latest(r) == \A q \in ReqIds : q > r => req[q].pc = "idle"

\* C4 (requests one at a time): when POST /api/roles with a name succeeded and
\* the next request on roles is a POST with the same name, that one is answered
\* 400 'Role with this name already exists', writes no audit record, and exactly
\* one role has the name afterwards.
C4_SecondCreateConflicts ==
  \A r1 \in ReqIds, r2 \in ReqIds :
    ( /\ r1 < r2
      /\ req[r1].kind = "POST_roles" /\ req[r1].pc = "done" /\ req[r1].status = 201
      /\ req[r2].kind = "POST_roles" /\ req[r2].pc # "idle"
      /\ req[r2].name = req[r1].name
      /\ \A q \in ReqIds : (r1 < q /\ q < r2) => req[q].res # "roles" )
    => /\ req[r2].pc = "done"
       /\ req[r2].status = 400
       /\ req[r2].body = ErrorBody("Role with this name already exists")
       /\ AuditsOf(r2) = {}
       /\ req[r2].auditOk = "none"
       /\ Latest(r2) => Cardinality(RolesNamed(req[r1].name)) = 1

\* C4 witness: a name was created and the same name was posted again.
C4_Witness ==
  \E r1 \in ReqIds, r2 \in ReqIds :
    /\ r1 < r2
    /\ req[r1].kind = "POST_roles" /\ req[r1].status = 201
    /\ req[r2].kind = "POST_roles" /\ req[r2].status = 400
    /\ req[r2].name = req[r1].name
    /\ Cardinality(RolesNamed(req[r1].name)) = 1

\* A step that removes role document d (its key is no longer stored).
Removes(d) ==
  /\ d \in coll["roles"]
  /\ \A e \in coll'["roles"] : e._id # d._id

\* C5 as stated: no role document is removed while some user's role equals the
\* role's name.
C5_NeverRemovedWhileReferenced ==
  [][\A d \in coll["roles"] :
       Removes(d) => ~\E u \in coll["users"] : u.role = d.name]_vars

\* C5 amended: a role document is removed only by a DELETE /api/roles/:id whose
\* count query found no user with the role's name; if no other request wrote
\* users or roles between that handler's read of the role and its deleteOne,
\* no user references the role when it is removed.
C5_RemovedOnlyAfterZeroCount ==
  [][\A d \in coll["roles"] :
       Removes(d) =>
         \E r \in ReqIds :
           /\ req[r].kind = "DELETE_roles"
           /\ req[r].pc = "deleteOne" /\ req'[r].pc = "audit"
           /\ req[r].id = ObjectIdToString(d._id)
           /\ req[r].cnt = 0
           /\ ~req[r].stale => ~\E u \in coll["users"] : u.role = d.name]_vars

\* C5 witness: an unreferenced role was deleted by an undisturbed request.
C5_Witness ==
  \E r \in ReqIds :
    /\ req[r].kind = "DELETE_roles"
    /\ Succeeded(r)
    /\ ~req[r].stale
    /\ req[r].snap \notin coll["roles"]

\* C6 (requests one at a time): DELETE /api/roles/:id for a stored role that
\* one or more users reference goes no further than the count query, is
\* answered 400 with that number of users, leaves the role document as it was
\* and writes no audit record.
C6_DeleteReferencedRoleRefused ==
  \A r \in ReqIds :
    LET n == Cardinality({u \in coll["users"] : u.role = req[r].snap.name})
    IN ( /\ req[r].kind = "DELETE_roles"
         /\ req[r].pc # "idle"
         /\ Latest(r)
         /\ req[r].snap # NoDoc
         /\ n >= 1 )
       => /\ req[r].pc \in {"countDocuments", "done"}
          /\ req[r].pc = "done" =>
               /\ req[r].status = 400
               /\ req[r].body.tag = "error"
               /\ req[r].body.n = n
          /\ req[r].snap \in coll["roles"]
          /\ AuditsOf(r) = {}
          /\ req[r].auditOk = "none"

\* C6 witness: a delete of a referenced role was refused with the count.
C6_Witness ==
  \E r \in ReqIds :
    /\ req[r].kind = "DELETE_roles"
    /\ req[r].pc = "done"
    /\ req[r].status = 400
    /\ req[r].body.n >= 1
    /\ req[r].snap \in coll["roles"]

\* --------------------------------------------------- properties: validation
\* The routes that validate their body: kubectl execute, role and agent create.
NextValidation ==
  \E r \in ReqIds :
    \/ \E command \in Commands, namespace \in Namespaces :
         KubectlExecute(r, command, namespace)
    \/ \E name \in NewRoleNames \cup {Absent} : PostRolesFindOne(r, name)
    \/ PostRolesInsertOne(r)
    \/ \E name \in {"helper", "", Absent} : PostAgents(r, name)
    \/ createAuditLog(r)
    \/ Respond(r)

SpecValidation == Init /\ [][NextValidation]_vars

\* The body of request rq fails validation: no command or a verb outside the
\* allow list (kubectl execute), no name (role and agent create).
FailsValidation(rq) ==
  \/ /\ rq.kind = "POST_kubectl"
     /\ LET command == SubSeq(rq.id.s, 3, Len(rq.id.s))
        IN command = <<>> \/ command[1] \notin allowedCommands
  \/ /\ rq.kind \in {"POST_roles", "POST_agents"}
     /\ rq.name \in {"", Absent}

\* C11: a request whose body fails validation is answered at once with status
\* 400 and an error message, and handling it changes neither the collections
\* nor the audit collection, and calls nothing on the control plane.
C11_ValidationErrorsAre400 ==
  [][\A r \in ReqIds :
       (req[r].pc = "idle" /\ req'[r].pc # "idle" /\ FailsValidation(req'[r]))
         => /\ req'[r].pc = "done"
            /\ req'[r].status = 400
            /\ req'[r].body.tag = "error"
            /\ req'[r].body.msg # ""
            /\ coll' = coll
            /\ audit_logs' = audit_logs
            /\ k8sCalls' = k8sCalls]_vars

\* ------------------------------------------------------------ list endpoints
\* The list routes modelled in full: users (sorted by createdAt), roles (by
\* name) and audit-logs (by timestamp, with the action filter).
ListResources == {"users", "roles", "audit_logs"}
\* The value of a date field (createdAt, timestamp) of the document with key
\* oid: keys grow with time, two documents written in the same millisecond
\* have the same date.
DateOf(oid) == oid \div 2
\* Position of a role name in string order.
NameRank(name) ==
  CASE name = "" -> 0 [] name = "ADMIN" -> 1 [] name = "DEV" -> 2 [] name = "USER" -> 3
    [] OTHER -> 4
\* find(filter): the documents of the collection that match; only audit-logs
\* has a filter (action, when the query gives one).
ListFilter(res, action) ==
  IF res = "audit_logs"
  THEN {a \in audit_logs : action = Absent \/ a.action = action}
  ELSE coll[res]
\* The sort field of each matching document.
SortField(res, docs) ==
  [d \in docs |-> IF res = "roles" THEN NameRank(d.name) ELSE DateOf(d._id)]
\* order === 'desc' ? -1 : 1
SortDirection(order) == IF order = "desc" THEN -1 ELSE 1

\* cursor.sort({field: dir}): the orders the store may return the documents
\* in; documents with equal sort fields come in any order.
RECURSIVE SortedSeqs(_, _, _)
SortedSeqs(docs, key, dir) ==
  IF docs = {} THEN {<<>>}
  ELSE UNION {{<<m>> \o t : t \in SortedSeqs(docs \ {m}, key, dir)} :
                m \in {x \in docs : \A y \in docs : dir * key[x] <= dir * key[y]}}
\* cursor.skip(n) and cursor.limit(n); limit(0) means no limit.
CursorSkip(seq, n) == SubSeq(seq, n + 1, Len(seq))
CursorLimit(seq, n) ==
  IF n = 0 \/ n >= Len(seq) THEN seq ELSE SubSeq(seq, 1, n)

\* Fault variant: the skip of the page after the one asked for.
ListSkipMut(page, limit) == page * limit
\* const skip = (parseInt(page) - 1) * parseInt(limit)
ListSkip(page, limit) == (page - 1) * limit

\* GET /api/{resource}?page&limit&order, first await: find, sort, skip, limit,
\* toArray.  A negative skip makes the driver throw (500).
ListFind(r, res, page, limit, order, action) ==
  /\ Arrives(r)
  /\ LET started == [req[r] EXCEPT !.kind = "LIST_page", !.res = res,
                       !.query = [page |-> page, limit |-> limit, order |-> order,
                                  action |-> action]]
         skip == ListSkip(page, limit)
         docs == ListFilter(res, action)
     IN IF skip < 0
        THEN req' = [req EXCEPT ![r] =
               [started EXCEPT !.pc = "done", !.status = 500,
                               !.body = ErrorBody("Invalid skip")]]
        ELSE \E sorted \in SortedSeqs(docs, SortField(res, docs), SortDirection(order)) :
               LET page1 == CursorLimit(CursorSkip(sorted, skip), limit)
               IN req' = [req EXCEPT ![r] =
                    [started EXCEPT !.pc = "countDocuments",
                       !.data = [i \in 1..Len(page1) |-> ObjectIdToString(page1[i]._id)]]]
  /\ UNCHANGED <<server, coll, audit_logs, nextOid, k8sCalls>>

\* Second await: countDocuments(filter); then res.json({ data, total }).
ListCount(r) ==
  /\ req[r].kind = "LIST_page"
  /\ req[r].pc = "countDocuments"
  /\ req' = [req EXCEPT ![r] =
       [req[r] EXCEPT !.pc = "done", !.status = 200,
          !.total = Cardinality(ListFilter(req[r].res, req[r].query.action))]]
  /\ UNCHANGED <<server, coll, audit_logs, nextOid, k8sCalls>>

\* A store with three users (two created in the same millisecond), the two
\* roles and two audit records from earlier runs.
InitList ==
  /\ coll = [InitColl EXCEPT !["users"] =
               {Doc(3, NoStr, "", "ADMIN"), Doc(6, NoStr, "", "USER"), Doc(7, NoStr, "", "USER")}]
  /\ audit_logs =
       {[_id |-> 8, action |-> "create", resource |-> "users",
         resourceId |-> ObjectIdToString(6), req |-> 0],
        [_id |-> 9, action |-> "create", resource |-> "users",
         resourceId |-> ObjectIdToString(7), req |-> 0]}
  /\ nextOid = 10
  /\ k8sCalls = {}
  /\ req = [r \in ReqIds |-> IdleReq]
  /\ server = Serving

\* List requests, interleaved with user creation (which also appends to the
\* audit collection).
NextList ==
  \E r \in ReqIds :
    \/ \E res \in ListResources, page \in 0..MaxPage, limit \in 0..MaxLimit,
          order \in {"asc", "desc"} :
         \E action \in (IF res = "audit_logs" THEN {Absent, "create", "delete"} ELSE {Absent}) :
           ListFind(r, res, page, limit, order, action)
    \/ ListCount(r)
    \/ PostUsers(r, Absent)
    \/ createAuditLog(r)
    \/ Respond(r)

SpecList == InitList /\ [][NextList]_vars

\* ------------------------------------------------------- properties: lists
\* In the order asked for, document x comes strictly before document d.
StrictlyBefore(res, docs, order, x, d) ==
  IF order = "desc"
  THEN SortField(res, docs)[x] > SortField(res, docs)[d]
  ELSE SortField(res, docs)[x] < SortField(res, docs)[d]

\* The sequence of ids data is what stands at positions first, first+1, ... of
\* docs in some arrangement of docs by the sort field: the ids are distinct
\* ids of docs, and the document at position k has at most k-1 documents
\* strictly before it and at least k documents not after it.
StandsAt(res, docs, order, first, data) ==
  /\ \A i \in 1..Len(data), j \in 1..Len(data) : i # j => data[i] # data[j]
  /\ \A i \in 1..Len(data) :
       \E d \in docs :
         /\ ObjectIdToString(d._id) = data[i]
         /\ Cardinality({x \in docs : StrictlyBefore(res, docs, order, x, d)}) <= first + i - 2
         /\ Cardinality({x \in docs : ~StrictlyBefore(res, docs, order, d, x)}) >= first + i - 1

\* C12: for page p >= 1 and limit L >= 1, the find of a list request returns
\* exactly the documents at positions (p-1)*L+1 .. p*L of the (filtered)
\* collection ordered by the sort field in the requested direction, and its
\* count returns the number of all (filtered) documents, whatever p and L.
C12_PageAndTotal ==
  [][\A r \in ReqIds :
       LET q == req'[r].query
           docs == ListFilter(req'[r].res, q.action)
           first == (q.page - 1) * q.limit + 1
           last == q.page * q.limit
       IN (req'[r].kind = "LIST_page" /\ q.page >= 1 /\ q.limit >= 1)
          => /\ (req[r].pc = "idle" /\ req'[r].pc # "idle")
                => /\ req'[r].pc = "countDocuments"
                   /\ Len(req'[r].data) =
                        Cardinality({k \in first..last : k <= Cardinality(docs)})
                   /\ StandsAt(req'[r].res, docs, q.order, first, req'[r].data)
             /\ (req[r].pc = "countDocuments" /\ req'[r].pc # "countDocuments")
                => /\ req'[r].pc = "done"
                   /\ req'[r].status = 200
                   /\ req'[r].data = req[r].data
                   /\ req'[r].total = Cardinality(docs)]_vars

\* C12 witness: page 2 with limit 2 of the three users came back with the one
\* remaining user and total 3.
C12_Witness ==
  \E r \in ReqIds :
    /\ req[r].kind = "LIST_page" /\ req[r].res = "users"
    /\ req[r].pc = "done" /\ req[r].status = 200
    /\ req[r].query.page = 2 /\ req[r].query.limit = 2
    /\ Len(req[r].data) = 1
    /\ req[r].total = 3

\* ------------------------------------------------------ pods and deployments
\* The namespaces the list calls query by default, in this order.
DefaultNamespaces == <<"librechat", "snow-mcp", "default">>
\* Namespace lists a client passes as ?namespaces=a,b (Absent: the default).
NamespaceParams ==
  {Absent, <<"default">>, <<"snow-mcp", "librechat">>, <<"librechat", "nope", "default">>}
AllNamespaces == {"librechat", "snow-mcp", "default", "nope"}

\* The pods a cluster may run, per namespace, in the order the API lists them.
PodNames ==
  [ns \in AllNamespaces |->
     CASE ns = "librechat" -> <<"librechat-api-1", "librechat-api-2", "librechat-mongo">>
       [] ns = "snow-mcp" -> <<"server">>
       [] ns = "default" -> <<"db">>
       [] OTHER -> <<>>]
\* metadata.labels.app of each pod (Absent: no such label).
AppLabel(name) ==
  CASE name = "db" -> "mongodb" [] name = "server" -> "snow-mcp" [] OTHER -> Absent
\* What a pod reports: its phase and whether all its containers are ready;
\* "absent" stands for a pod that is not there.
PodStates ==
  {[phase |-> "absent", allReady |-> FALSE], [phase |-> "Running", allReady |-> TRUE],
   [phase |-> "Running", allReady |-> FALSE], [phase |-> "Pending", allReady |-> FALSE]}
AllPodNames == {"librechat-api-1", "librechat-api-2", "librechat-mongo", "server", "db"}
\* A cluster: the state of every pod.
Clusters == [AllPodNames -> PodStates]

\* A list field of a control-plane object: given, or omitted (undefined).
Given(items) == [given |-> TRUE, items |-> items]
Omitted == [given |-> FALSE, items |-> <<>>]

\* response.body.items of listNamespacedPod(namespace): the pods that are
\* there, each with one container and its Ready condition.
PodItems(cluster, ns) ==
  LET all == [i \in 1..Len(PodNames[ns]) |->
                [namespace |-> ns, name |-> PodNames[ns][i],
                 phase |-> cluster[PodNames[ns][i]].phase,
                 containerStatuses |->
                   Given(<<[ready |-> cluster[PodNames[ns][i]].allReady]>>),
                 conditions |->
                   Given(<<[status |-> IF cluster[PodNames[ns][i]].allReady
                                       THEN "True" ELSE "False",
                            reason |-> IF cluster[PodNames[ns][i]].allReady THEN ""
                                       ELSE "ContainersNotReady",
                            message |-> ""]>>)]]
      Present(pod) == pod.phase # "absent"
  IN SelectSeq(all, Present)

\* `x || []` for a list the control plane may omit.
OrEmpty(list) == IF list.given THEN list.items ELSE <<>>
\* conditions.find(c => c.status === 'False'): the first such condition, or
\* undefined.
NoCondition == [status |-> "undefined", reason |-> "", message |-> ""]
FailedCondition(conditions) ==
  LET failed == SelectSeq(conditions, LAMBDA c : c.status = "False")
  IN IF failed = <<>> THEN NoCondition ELSE Head(failed)

\* Fault variant: a Running pod counts as ready as soon as one container is.
formatPodInfoMut(pod) ==
  LET containerStatuses == OrEmpty(pod.containerStatuses)
      failedCondition == FailedCondition(OrEmpty(pod.conditions))
      someReady == \E i \in 1..Len(containerStatuses) : containerStatuses[i].ready
  IN [id |-> <<pod.namespace, "::", pod.name>>, name |-> pod.name,
      namespace |-> pod.namespace,
      status |-> IF pod.phase = "Running"
                 THEN (IF someReady THEN "Running" ELSE "Not Ready")
                 ELSE pod.phase,
      statusReason |-> IF pod.phase # "Running" /\ failedCondition # NoCondition
                       THEN (IF failedCondition.reason # "" THEN failedCondition.reason
                             ELSE failedCondition.message)
                       ELSE "",
      phase |-> pod.phase,
      app |-> AppLabel(pod.name)]
\* formatPodInfo: status is 'Running' or 'Not Ready' for phase Running; else it
\* is the phase, and statusReason is `reason || message` of the first condition
\* whose status is 'False'; the id is namespace::name.
formatPodInfo(pod) ==
  LET containerStatuses == OrEmpty(pod.containerStatuses)
      failedCondition == FailedCondition(OrEmpty(pod.conditions))
      allReady == \A i \in 1..Len(containerStatuses) : containerStatuses[i].ready
  IN [id |-> <<pod.namespace, "::", pod.name>>, name |-> pod.name,
      namespace |-> pod.namespace,
      status |-> IF pod.phase = "Running"
                 THEN (IF allReady THEN "Running" ELSE "Not Ready")
                 ELSE pod.phase,
      statusReason |-> IF pod.phase # "Running" /\ failedCondition # NoCondition
                       THEN (IF failedCondition.reason # "" THEN failedCondition.reason
                             ELSE failedCondition.message)
                       ELSE "",
      phase |-> pod.phase,
      app |-> AppLabel(pod.name)]

\* Fault variant: the loop gives up at the first namespace whose query fails.
RECURSIVE listPodsMut(_, _, _)
listPodsMut(namespaces, cluster, up) ==
  IF namespaces = <<>> \/ ~up[Head(namespaces)] THEN <<>>
  ELSE LET items == PodItems(cluster, Head(namespaces))
       IN [i \in 1..Len(items) |-> formatPodInfo(items[i])]
            \o listPodsMut(Tail(namespaces), cluster, up)
\* listPods(namespaces): for each namespace in turn, push the formatted items
\* of the query, or skip the namespace when the query throws.  up[ns] says
\* whether the query for ns succeeds.
RECURSIVE listPods(_, _, _)
listPods(namespaces, cluster, up) ==
  IF namespaces = <<>> THEN <<>>
  ELSE LET items == PodItems(cluster, Head(namespaces))
           pods == IF up[Head(namespaces)]
                   THEN [i \in 1..Len(items) |-> formatPodInfo(items[i])]
                   ELSE <<>>
       IN pods \o listPods(Tail(namespaces), cluster, up)

\* `namespaces ? namespaces.split(',') : [defaults]`
NamespacesArray(param) == IF param = Absent THEN DefaultNamespaces ELSE param

\* GET /api/pods?namespaces=...: listPods, then { data, total: data.length }.
\* The request keeps the query, the cluster and which queries succeeded in
\* query (history).
GetPods(r, param, cluster, up) ==
  /\ Arrives(r)
  /\ LET pods == listPods(NamespacesArray(param), cluster, up)
     IN req' = [req EXCEPT ![r] =
          [req[r] EXCEPT !.kind = "GET_pods", !.res = "k8s", !.pc = "done",
             !.query = [namespaces |-> param, cluster |-> cluster, up |-> up],
             !.data = pods, !.total = Len(pods), !.status = 200]]
  /\ UNCHANGED <<server, coll, audit_logs, nextOid, k8sCalls>>


\* The deployments a cluster may hold, per namespace, in API order.
DeploymentNames ==
  [ns \in AllNamespaces |->
     CASE ns = "librechat" -> <<"librechat">> [] ns = "default" -> <<"web">> [] OTHER -> <<>>]
AllDeploymentNames == {"librechat", "web"}
\* What a deployment reports: spec.replicas and status.availableReplicas, either
\* of which the API may leave out (undefined): availableReplicas when no
\* replica is available, spec.replicas when the manifest gives no count.
DeploymentStates ==
  {[there |-> FALSE, replicas |-> 0, replicasDefined |-> TRUE,
    available |-> 0, availableDefined |-> FALSE],
   [there |-> TRUE, replicas |-> 0, replicasDefined |-> TRUE,
    available |-> 0, availableDefined |-> FALSE],
   [there |-> TRUE, replicas |-> 0, replicasDefined |-> TRUE,
    available |-> 0, availableDefined |-> TRUE],
   [there |-> TRUE, replicas |-> 1, replicasDefined |-> TRUE,
    available |-> 0, availableDefined |-> FALSE],
   [there |-> TRUE, replicas |-> 2, replicasDefined |-> TRUE,
    available |-> 1, availableDefined |-> TRUE],
   [there |-> TRUE, replicas |-> 2, replicasDefined |-> TRUE,
    available |-> 2, availableDefined |-> TRUE],
   [there |-> TRUE, replicas |-> 0, replicasDefined |-> FALSE,
    available |-> 0, availableDefined |-> FALSE],
   [there |-> TRUE, replicas |-> 0, replicasDefined |-> FALSE,
    available |-> 1, availableDefined |-> TRUE]}
DeploymentClusters == [AllDeploymentNames -> DeploymentStates]

\* response.body.items of listNamespacedDeployment(namespace).
DeploymentItems(cluster, ns) ==
  LET all == [i \in 1..Len(DeploymentNames[ns]) |->
                [namespace |-> ns, name |-> DeploymentNames[ns][i],
                 state |-> cluster[DeploymentNames[ns][i]]]]
      Present(d) == d.state.there
  IN SelectSeq(all, Present)

\* a === b on two counts either of which may be undefined.
StrictEqual(aDefined, a, bDefined, b) ==
  /\ aDefined = bDefined
  /\ aDefined => a = b

\* formatDeploymentInfo: 'Ready' if availableReplicas === spec.replicas, else
\* 'Partial' if availableReplicas > 0, else 'Not Ready'; the counts reported are
\* `availableReplicas || 0` and `spec.replicas || 0`.
formatDeploymentInfo(deployment) ==
  LET st == deployment.state
  IN [id |-> <<deployment.namespace, "::", deployment.name>>, name |-> deployment.name,
      namespace |-> deployment.namespace,
      status |-> IF StrictEqual(st.availableDefined, st.available,
                                st.replicasDefined, st.replicas)
                 THEN "Ready"
                 ELSE IF st.availableDefined /\ st.available > 0
                 THEN "Partial"
                 ELSE "Not Ready",
      availableReplicas |-> IF st.availableDefined THEN st.available ELSE 0,
      desiredReplicas |-> IF st.replicasDefined THEN st.replicas ELSE 0,
      app |-> Absent]

\* listDeployments(namespaces): the same loop as listPods.
RECURSIVE listDeployments(_, _, _)
listDeployments(namespaces, cluster, up) ==
  IF namespaces = <<>> THEN <<>>
  ELSE LET items == DeploymentItems(cluster, Head(namespaces))
           deployments == IF up[Head(namespaces)]
                          THEN [i \in 1..Len(items) |-> formatDeploymentInfo(items[i])]
                          ELSE <<>>
       IN deployments \o listDeployments(Tail(namespaces), cluster, up)

\* GET /api/deployments?namespaces=...
GetDeployments(r, param, cluster, up) ==
  /\ Arrives(r)
  /\ LET deployments == listDeployments(NamespacesArray(param), cluster, up)
     IN req' = [req EXCEPT ![r] =
          [req[r] EXCEPT !.kind = "GET_deployments", !.res = "k8s", !.pc = "done",
             !.query = [namespaces |-> param, cluster |-> cluster, up |-> up],
             !.data = deployments, !.total = Len(deployments), !.status = 200]]
  /\ UNCHANGED <<server, coll, audit_logs, nextOid, k8sCalls>>

\* ------------------------------------------------------------ system status
\* String.prototype.includes on pod names and labels.
NameIncludes(name, part) ==
  CASE name \in {"librechat-api-1", "librechat-api-2"} -> part = "librechat"
    [] name = "librechat-mongo" -> part \in {"librechat", "mongo"}
    [] name = "mongodb" -> part = "mongo"
    [] name = "snow-mcp" -> part = "mcp"
    [] OTHER -> FALSE

\* Fault variant: a bucket whose pods all run is reported degraded.
getServiceStatusMut(pods) ==
  LET IsRunning(p) == p.status = "Running"
      runningPods == SelectSeq(pods, IsRunning)
  IN IF Len(pods) = 0 THEN [status |-> "down", reason |-> "No pods found"]
     ELSE IF Len(runningPods) = 0 THEN [status |-> "down", reason |-> "No running pods"]
     ELSE [status |-> "degraded", reason |-> "Some pods not running"]
\* getServiceStatus(pods).
getServiceStatus(pods) ==
  LET IsRunning(p) == p.status = "Running"
      runningPods == SelectSeq(pods, IsRunning)
  IN IF Len(pods) = 0 THEN [status |-> "down", reason |-> "No pods found"]
     ELSE IF Len(runningPods) = 0 THEN [status |-> "down", reason |-> "No running pods"]
     ELSE IF Len(runningPods) < Len(pods)
     THEN [status |-> "degraded", reason |-> "Some pods not running"]
     ELSE [status |-> "healthy", reason |-> "All pods running"]

\* One service entry of the response: {...status, pods: pods.map(...)}.
ServiceEntry(st, pods) ==
  [status |-> st.status, reason |-> st.reason,
   pods |-> [i \in 1..Len(pods) |->
               [name |-> pods[i].name, namespace |-> pods[i].namespace,
                status |-> pods[i].status]]]

\* Fault variant: the ping result is used only when the bucket has no pods.
mongoStatusMut(mongoPods, db, ping) ==
  IF db = NoDb \/ Len(mongoPods) > 0 THEN getServiceStatus(mongoPods)
  ELSE IF ping THEN [status |-> "healthy", reason |-> "Connected and responsive"]
  ELSE [status |-> "down", reason |-> "Connection error"]
\* let mongoStatus = getServiceStatus(mongoPods); with a store handle,
\* db.admin().ping() replaces it: resolved gives healthy, thrown gives down with
\* 'Connection error: ' and the error's message.
mongoStatus(mongoPods, db, ping) ==
  IF db = NoDb THEN getServiceStatus(mongoPods)
  ELSE IF ping THEN [status |-> "healthy", reason |-> "Connected and responsive"]
  ELSE [status |-> "down", reason |-> "Connection error"]

\* GET /api/system-status: list the pods of the three namespaces, filter them
\* into the three buckets, rate each bucket, and let the store ping decide the
\* mongodb status when there is a store handle.
GetSystemStatus(r, cluster, up, ping) ==
  /\ Arrives(r)
  /\ LET allPods == listPods(DefaultNamespaces, cluster, up)
         IsLibrechat(p) == p.namespace = "librechat" /\ NameIncludes(p.name, "librechat")
         IsMongo(p) == \/ (p.namespace = "librechat" /\ NameIncludes(p.name, "mongo"))
                       \/ p.app = "mongodb"
         IsMcp(p) == \/ p.namespace = "snow-mcp"
                     \/ (p.app # Absent /\ NameIncludes(p.app, "mcp"))
         librechatPods == SelectSeq(allPods, IsLibrechat)
         mongoPods == SelectSeq(allPods, IsMongo)
         mcpPods == SelectSeq(allPods, IsMcp)
     IN req' = [req EXCEPT ![r] =
          [req[r] EXCEPT !.kind = "GET_system_status", !.res = "k8s", !.pc = "done",
             !.query = [namespaces |-> Absent, cluster |-> cluster, up |-> up,
                        ping |-> ping],
             !.health = [librechat |-> ServiceEntry(getServiceStatus(librechatPods), librechatPods),
                         mongodb |-> ServiceEntry(mongoStatus(mongoPods, server.db, ping), mongoPods),
                         mcp |-> ServiceEntry(getServiceStatus(mcpPods), mcpPods)],
             !.status = 200]]
  /\ UNCHANGED <<server, coll, audit_logs, nextOid, k8sCalls>>

\* The read routes over the cluster, one request against every cluster state.
NextCluster ==
  LET r == 1
      Ups == [AllNamespaces -> BOOLEAN]
  IN \/ /\ req[r].pc = "idle"
        /\ \E up \in Ups, param \in NamespaceParams, cluster \in Clusters :
             GetPods(r, param, cluster, up)
     \/ /\ req[r].pc = "idle"
        /\ \E up \in Ups, param \in NamespaceParams, cluster \in DeploymentClusters :
             GetDeployments(r, param, cluster, up)
     \/ /\ req[r].pc = "idle"
        /\ \E up \in Ups, cluster \in Clusters, ping \in BOOLEAN :
             GetSystemStatus(r, cluster, up, ping)

SpecCluster == Init /\ [][NextCluster]_vars

\* ------------------------------------------------ properties: cluster reads
\* Positions of the pods of a service entry whose status is Running.
RunningIn(entry) == {i \in 1..Len(entry.pods) : entry.pods[i].status = "Running"}

\* C13: the status of a bucket of pods is down / 'No pods found' if the bucket
\* is empty, down / 'No running pods' if no pod is Running, degraded if some
\* but not all are Running, healthy if all are (checked on the librechat and
\* mcp entries of the system status, which carry the bucket they rate).
C13_BucketHealth ==
  \A r \in ReqIds :
    (req[r].kind = "GET_system_status" /\ req[r].pc = "done")
    => \A entry \in {req[r].health.librechat, req[r].health.mcp} :
         LET n == Len(entry.pods)
             running == RunningIn(entry)
         IN /\ n = 0 => entry.status = "down" /\ entry.reason = "No pods found"
            /\ (n > 0 /\ running = {})
                 => entry.status = "down" /\ entry.reason = "No running pods"
            /\ (running # {} /\ running # 1..n) => entry.status = "degraded"
            /\ (n > 0 /\ running = 1..n) => entry.status = "healthy"

\* C13 witness: three pods in the librechat bucket, two Running and one
\* Pending, rated degraded.
C13_Witness ==
  \E r \in ReqIds :
    /\ req[r].kind = "GET_system_status" /\ req[r].pc = "done"
    /\ Len(req[r].health.librechat.pods) = 3
    /\ Cardinality(RunningIn(req[r].health.librechat)) = 2
    /\ \E i \in 1..3 : req[r].health.librechat.pods[i].status = "Pending"
    /\ req[r].health.librechat.status = "degraded"


\* The names of the items the control plane holds in namespace ns, for the
\* kind of list request rq made.
ItemNamesOf(rq, ns) ==
  LET items == IF rq.kind = "GET_pods" THEN PodItems(rq.query.cluster, ns)
               ELSE DeploymentItems(rq.query.cluster, ns)
  IN [k \in 1..Len(items) |-> items[k].name]
\* Where the items of the i-th requested namespace start in the response: after
\* the items of the namespaces before it whose query succeeded.
RECURSIVE OffsetOf(_, _)
OffsetOf(rq, i) ==
  IF i = 1 THEN 0
  ELSE LET nss == NamespacesArray(rq.query.namespaces)
       IN OffsetOf(rq, i - 1) +
            (IF rq.query.up[nss[i - 1]] THEN Len(ItemNamesOf(rq, nss[i - 1])) ELSE 0)

\* C14: GET /api/pods and GET /api/deployments answer 200 whichever namespace
\* queries fail; data holds, in the requested namespace order, the items of
\* exactly the namespaces whose query succeeded, and total is its length.
C14_PartialFailureTolerated ==
  \A r \in ReqIds :
    (req[r].kind \in {"GET_pods", "GET_deployments"} /\ req[r].pc = "done")
    => LET nss == NamespacesArray(req[r].query.namespaces)
           n == Len(nss)
       IN /\ req[r].status = 200
          /\ Len(req[r].data) = OffsetOf(req[r], n + 1)
          /\ req[r].total = Len(req[r].data)
          /\ \A i \in 1..n :
               req[r].query.up[nss[i]]
                 => \A k \in 1..Len(ItemNamesOf(req[r], nss[i])) :
                      LET item == req[r].data[OffsetOf(req[r], i) + k]
                      IN /\ item.namespace = nss[i]
                         /\ item.name = ItemNamesOf(req[r], nss[i])[k]

\* C14 witness: of the three default namespaces the first query failed although
\* the namespace has pods, and the pods of the two others came back.
C14_Witness ==
  \E r \in ReqIds :
    /\ req[r].kind = "GET_pods" /\ req[r].pc = "done" /\ req[r].status = 200
    /\ req[r].query.namespaces = Absent
    /\ ~req[r].query.up["librechat"]
    /\ PodItems(req[r].query.cluster, "librechat") # <<>>
    /\ req[r].query.up["snow-mcp"] /\ req[r].query.up["default"]
    /\ Len(req[r].data) = 2
    /\ req[r].data[1].namespace = "snow-mcp"
    /\ req[r].data[2].namespace = "default"

\* --------------------------------------------- properties: audit collection
\* C15: no step changes an audit record that stays in the collection; a record
\* leaves the collection only in the step of a DELETE /api/audit-logs/:id for
\* its key that answers 200, and in that step the collection loses exactly that
\* record and gains none.
C15_AuditAppendOnly ==
  [][/\ \A a \in audit_logs, b \in audit_logs' : b._id = a._id => b = a
     /\ \A a \in audit_logs :
          a \notin audit_logs'
            => /\ \E r \in ReqIds :
                    /\ req[r].pc = "idle" /\ req'[r].pc = "done"
                    /\ req'[r].kind = "DELETE_audit"
                    /\ req'[r].status = 200
                    /\ req'[r].id = ObjectIdToString(a._id)
               /\ audit_logs' = audit_logs \ {a}
               /\ Cardinality(audit_logs') = Cardinality(audit_logs) - 1]_vars

\* C15 witness: the audit record a request wrote was deleted through the route.
C15_Witness ==
  \E r \in ReqIds :
    /\ req[r].kind = "DELETE_audit" /\ req[r].pc = "done" /\ req[r].status = 200
    /\ \A a \in audit_logs : ObjectIdToString(a._id) # req[r].id
    /\ \E q \in ReqIds : req[q].auditOk = "ok" /\ ObjectIdToString(req[q].auditId) = req[r].id

\* ------------------------------------------------------------------ startup
\* connectDB: client.connect() resolves and db = client.db(DB_NAME).
ConnectDBResolves ==
  /\ server.pc = "connectDB"
  /\ server' = [server EXCEPT !.db = DB_NAME, !.pc = "listen"]
  /\ UNCHANGED <<coll, audit_logs, nextOid, k8sCalls, req>>

\* connectDB: the client constructor or client.connect() throws; the catch
\* block calls process.exit(1), which closes whatever the process holds.
ConnectDBThrows ==
  /\ server.pc = "connectDB"
  /\ server' = [server EXCEPT !.pc = "exited", !.exitCode = 1, !.listening = FALSE]
  /\ UNCHANGED <<coll, audit_logs, nextOid, k8sCalls, req>>

\* Fault variant: start() calls app.listen without awaiting connectDB().
AfterAwaitConnectDBMut(s) == s.pc \in {"connectDB", "listen"} /\ ~s.listening
\* start(): app.listen is reached only after `await connectDB()` has returned.
AfterAwaitConnectDB(s) == s.pc = "listen"

\* app.listen(PORT, '0.0.0.0', ...): the socket is bound.
Listen ==
  /\ AfterAwaitConnectDB(server)
  /\ server' = [server EXCEPT !.listening = TRUE,
                              !.pc = IF @ = "listen" THEN "serving" ELSE @]
  /\ UNCHANGED <<coll, audit_logs, nextOid, k8sCalls, req>>

\* app.listen: the port cannot be bound; the 'error' event has no listener and
\* the process dies of the uncaught exception.
ListenFails ==
  /\ AfterAwaitConnectDB(server)
  /\ server' = [server EXCEPT !.pc = "exited", !.exitCode = 1, !.listening = FALSE]
  /\ UNCHANGED <<coll, audit_logs, nextOid, k8sCalls, req>>

InitStartup ==
  /\ coll = InitColl
  /\ audit_logs = {}
  /\ nextOid = 10
  /\ k8sCalls = {}
  /\ req = [r \in ReqIds |-> IdleReq]
  /\ server = Starting

\* The process from `start()` on, with the user routes as its traffic.
NextStartup ==
  \/ ConnectDBResolves
  \/ ConnectDBThrows
  \/ Listen
  \/ ListenFails
  \/ \E r \in ReqIds :
       \/ \E role \in RoleNames \cup {Absent} : PostUsers(r, role)
       \/ \E id \in IdParams("users"), role \in RoleNames \cup {Absent} : PutUsers(r, id, role)
       \/ \E id \in IdParams("users") : DeleteFindOne(r, "users", id)
       \/ DeleteDeleteOne(r)
       \/ createAuditLog(r)
       \/ Respond(r)

SpecStartup == InitStartup /\ [][NextStartup]_vars

\* ------------------------------------------------------- properties: startup
\* C16: whenever the server listens the store handle is set; the socket is
\* opened only with the handle set, the handle is never unset, and a process
\* whose initial connection failed has exited with a nonzero code, does not
\* listen, and takes no further step.
C16_ListensOnlyAfterConnect ==
  /\ [](server.listening => server.db = DB_NAME)
  /\ []((server.pc = "exited" /\ server.db = NoDb)
          => server.exitCode > 0 /\ ~server.listening)
  /\ [][/\ (~server.listening /\ server'.listening) => server.db = DB_NAME
        /\ server.db # NoDb => server'.db = server.db
        /\ server.pc = "exited" => server' = server
        /\ (\E r \in ReqIds : req'[r] # req[r]) => server.listening]_vars

\* C16 witness: the server listens with the handle set and has answered a
\* request.
C16_Witness ==
  /\ server.listening
  /\ server.db = DB_NAME
  /\ \E r \in ReqIds : req[r].pc = "done" /\ req[r].status = 201

\* --------------------------------------------------------------- cost stats
MaxTx == 3

\* Instants: a month number and a place in that month (0 its first
\* millisecond, 2 its last, 1 any instant between).
Instant(month, at) == [month |-> month, at |-> at]
Before(a, b) == a.month < b.month \/ (a.month = b.month /\ a.at <= b.at)
\* new Date(now.getFullYear(), now.getMonth(), 1)
startOfMonth(now) == Instant(now.month, 0)
\* new Date(now.getFullYear(), now.getMonth() + 1, 0, 23, 59, 59, 999)
endOfMonth(now) == Instant(now.month, 2)

\* A transaction document: the user it belongs to, its signed rawAmount and its
\* createdAt.
TxDoc(oid, user, rawAmount, createdAt) ==
  [_id |-> oid, appId |-> NoStr, name |-> "", role |-> "",
   user |-> user, rawAmount |-> rawAmount, createdAt |-> createdAt]
\* Transactions are written by the chat application, not by this API: users 3
\* (stored) and 6 (not stored), amounts of both signs, instants at the ends of
\* the previous, the current and the next month.
TxUsers == {3, 6}
TxAmounts == {-250, -100, 50}
TxInstants == {Instant(0, 2), Instant(1, 0), Instant(1, 2), Instant(2, 0)}
NoTx == [user |-> 0]
TxChoices == {[user |-> u, rawAmount |-> a, createdAt |-> t] :
                u \in TxUsers, a \in TxAmounts, t \in TxInstants} \cup {NoTx}
Nows == {Instant(1, 0), Instant(1, 1), Instant(1, 2)}

\* Fault variant: the signed amount.
AbsMut(x) == x
\* { $abs: ... }
Abs(x) == IF x < 0 THEN -x ELSE x

\* { $sum: { $abs: '$rawAmount' } } over the documents of a group.
RECURSIVE SumAbsRawAmount(_)
SumAbsRawAmount(docs) ==
  IF docs = {} THEN 0
  ELSE LET d == CHOOSE x \in docs : TRUE
       IN Abs(d.rawAmount) + SumAbsRawAmount(docs \ {d})

\* $match: createdAt within [startOfMonth, endOfMonth].
MatchMonth(now) ==
  {d \in coll["transactions"] :
     Before(startOfMonth(now), d.createdAt) /\ Before(d.createdAt, endOfMonth(now))}

\* $group by '$user'.
GroupByUser(docs) ==
  {[_id |-> u,
    totalTokens |-> SumAbsRawAmount({d \in docs : d.user = u}),
    transactionCount |-> Cardinality({d \in docs : d.user = u})] :
     u \in {d.user : d \in docs}}

\* GET /api/cost-stats, first await: $match, $group, $sort by totalTokens
\* descending, $limit 10.
CostAggregate(r, now) ==
  /\ Arrives(r)
  /\ LET groups == GroupByUser(MatchMonth(now))
     IN \E sorted \in SortedSeqs(groups, [g \in groups |-> g.totalTokens], -1) :
          LET top == CursorLimit(sorted, 10)
          IN req' = [req EXCEPT ![r] =
               [req[r] EXCEPT !.kind = "GET_cost_stats", !.res = "transactions",
                  !.pc = "findOne", !.query = [now |-> now],
                  !.data = [i \in 1..Len(top) |->
                              [userId |-> ObjectIdToString(top[i]._id),
                               username |-> "",
                               totalTokens |-> top[i].totalTokens,
                               transactionCount |-> top[i].transactionCount]]]]
  /\ UNCHANGED <<server, coll, audit_logs, nextOid, k8sCalls>>

\* Second await: findOne of each consumer's user document for its display name.
CostJoinUsers(r) ==
  /\ req[r].kind = "GET_cost_stats"
  /\ req[r].pc = "findOne"
  /\ req' = [req EXCEPT ![r] =
       [req[r] EXCEPT !.pc = "aggregate",
          !.data = [i \in 1..Len(req[r].data) |->
                      [req[r].data[i] EXCEPT !.username =
                         IF \E u \in coll["users"] :
                              ObjectIdToString(u._id) = req[r].data[i].userId
                         THEN "username" ELSE "Unknown User"]]]]
  /\ UNCHANGED <<server, coll, audit_logs, nextOid, k8sCalls>>

\* Third await: the overall sums of the month; then res.json.
CostOverall(r) ==
  /\ req[r].kind = "GET_cost_stats"
  /\ req[r].pc = "aggregate"
  /\ LET docs == MatchMonth(req[r].query.now)
     IN req' = [req EXCEPT ![r] =
          [req[r] EXCEPT !.pc = "done", !.status = 200,
             !.total = SumAbsRawAmount(docs),
             !.body = [tag |-> "stats", id |-> NoStr, msg |-> "",
                       n |-> Cardinality(docs)]]]
  /\ UNCHANGED <<server, coll, audit_logs, nextOid, k8sCalls>>

\* Every store of up to MaxTx transactions.
InitCost ==
  /\ \E f \in [1..MaxTx -> TxChoices] :
       coll = [InitColl EXCEPT !["transactions"] =
                 {TxDoc(20 + i, f[i].user, f[i].rawAmount, f[i].createdAt) :
                    i \in {j \in 1..MaxTx : f[j] # NoTx}}]
  /\ audit_logs = {}
  /\ nextOid = 10
  /\ k8sCalls = {}
  /\ req = [r \in ReqIds |-> IdleReq]
  /\ server = Serving

NextCost ==
  LET r == 1
  IN \/ \E now \in Nows : CostAggregate(r, now)
     \/ CostJoinUsers(r)
     \/ CostOverall(r)

SpecCost == InitCost /\ [][NextCost]_vars

\* ---------------------------------------------------- properties: cost stats
\* The transactions of user u created in the month of instant now.
InMonthOf(u, now) ==
  {d \in coll["transactions"] : d.user = u /\ d.createdAt.month = now.month}
\* The absolute amounts of a set of transactions, as a bag.
AbsAmounts(docs) ==
  LET vals == {IF d.rawAmount < 0 THEN 0 - d.rawAmount ELSE d.rawAmount : d \in docs}
  IN [v \in vals |->
        Cardinality({d \in docs : d.rawAmount = v \/ d.rawAmount = 0 - v})]
RECURSIVE BagSum(_)
BagSum(b) ==
  IF DOMAIN b = {} THEN 0
  ELSE LET v == CHOOSE x \in DOMAIN b : TRUE
       IN v * b[v] + BagSum([w \in DOMAIN b \ {v} |-> b[w]])

\* C17: every consumer entry of a cost-stats response carries as totalTokens
\* the sum of the absolute rawAmounts of that user's transactions created in
\* the current calendar month, and no transaction of another month counts.
C17_TotalTokensIsSumOfAbs ==
  \A r \in ReqIds :
    (req[r].kind = "GET_cost_stats" /\ req[r].pc = "done")
      => \A i \in 1..Len(req[r].data) :
           LET e == req[r].data[i]
           IN \E u \in TxUsers :
                /\ ObjectIdToString(u) = e.userId
                /\ e.totalTokens = BagSum(AbsAmounts(InMonthOf(u, req[r].query.now)))

\* C17 witness: a user with amounts -100, -250 and 50 this month is reported
\* with 400.
C17_Witness ==
  \E r \in ReqIds :
    /\ req[r].kind = "GET_cost_stats" /\ req[r].pc = "done" /\ req[r].status = 200
    /\ \E i \in 1..Len(req[r].data) :
         /\ req[r].data[i].totalTokens = 400
         /\ {d.rawAmount : d \in InMonthOf(ObjectId(req[r].data[i].userId),
                                           req[r].query.now)} = {-100, -250, 50}

\* ------------------------------------------------ properties: audit ordering
\* The step of request r from state to state' applied r's primary mutation:
\* a document was added (create), the addressed document was removed (delete),
\* the document the update returned is stored (update), or the patch call reached the control
\* plane for an existing deployment (restart).
AppliesMutation(r) ==
  LET res == req'[r].res
  IN CASE ExpectedAction(r)' = "create" ->
            \E d \in coll'[res] \ coll[res] : d = req'[r].snap
       [] ExpectedAction(r)' = "delete" ->
            \E d \in coll[res] :
              /\ coll'[res] = coll[res] \ {d}
              /\ req'[r].id \in {ObjectIdToString(d._id), d.appId}
       [] ExpectedAction(r)' = "update" ->
            /\ req'[r].snap \in coll'[res]
            /\ \E d \in coll[res] : d._id = req'[r].snap._id
       [] ExpectedAction(r)' = "restart" ->
            \E c \in k8sCalls' \ k8sCalls :
              /\ c.req = r
              /\ c.op = "patchNamespacedDeployment"
              /\ [namespace |-> c.namespace, name |-> c.name] \in ClusterObjects
       [] OTHER -> FALSE

\* C18: a handler reaches its audit call only in the step that applied its
\* primary mutation, an audit record is inserted only by a handler standing at
\* its audit call, and a request answered 400, 404 or 500 has attempted no
\* audit insert and has no audit record.
C18_AuditOnlyAfterMutation ==
  /\ [](\A r \in ReqIds :
          (req[r].kind \in AuditedKinds /\ req[r].pc = "done"
             /\ req[r].status \in {400, 404, 500})
            => req[r].auditOk = "none" /\ AuditsOf(r) = {})
  /\ [][/\ \A r \in ReqIds :
             (req'[r].kind \in AuditedKinds /\ req[r].pc # "audit" /\ req'[r].pc = "audit")
               => AppliesMutation(r)
        /\ \A a \in audit_logs' \ audit_logs :
             req[a.req].pc = "audit" /\ req[a.req].kind \in AuditedKinds]_vars

\* C18 witness: one request wrote its audit record after its mutation while
\* another, answered 404, wrote none.
C18_Witness ==
  \E r, q \in ReqIds :
    /\ Audited(r) /\ AuditsOf(r) # {}
    /\ req[q].kind \in AuditedKinds /\ req[q].pc = "done" /\ req[q].status = 404
    /\ AuditsOf(q) = {}

\* The step in which audited request r sends its success response.
SendsSuccess(r) ==
  /\ req[r].pc # "done"
  /\ req'[r].pc = "done"
  /\ req'[r].kind \in AuditedKinds
  /\ req'[r].status \in {200, 201}

\* C19 as stated: an audited request sends its success response only after
\* its one audit insert attempt has completed, and when that attempt did not
\* fail the matching audit record is in the audit collection at the moment the
\* response is sent.
C19_RecordPresentAtResponse ==
  [][\A r \in ReqIds :
       SendsSuccess(r)
         => /\ req[r].auditOk \in {"ok", "failed"}
            /\ req[r].auditOk = "ok" => MatchingRecords(r)' # {}]_vars

\* C19 amended: an audited request sends its success response only after its
\* one audit insert attempt has completed; when that attempt did not fail, the
\* matching record was inserted before the response and is in the audit
\* collection at the moment the response is sent unless a
\* DELETE /api/audit-logs/:id for its key has removed it in between; no request
\* attempts a second insert.
C19_RespondsAfterAuditAttempt ==
  /\ [](\A r \in ReqIds : Audited(r) => req[r].auditOk \in {"ok", "failed"})
  /\ [][/\ \A r \in ReqIds :
             SendsSuccess(r)
               => /\ req[r].auditOk \in {"ok", "failed"}
                  /\ req[r].auditOk = "ok"
                       => /\ req[r].auditId # 0
                          /\ MatchingRecords(r)' # {} \/ Purged(r)'
        /\ \A a \in audit_logs' \ audit_logs :
             /\ req[a.req].auditOk = "none"
             /\ req'[a.req].auditOk = "ok"
             /\ req'[a.req].auditId = a._id
             /\ req'[a.req].pc # "done"
        /\ \A r \in ReqIds : req[r].auditOk # "none" => req'[r].auditOk = req[r].auditOk]_vars

\* C19 witness: one request was answered with its record in the collection,
\* another was answered after its audit insert had failed.
C19_Witness ==
  \E r, q \in ReqIds :
    /\ Audited(r) /\ req[r].auditOk = "ok" /\ MatchingRecords(r) # {}
    /\ Audited(q) /\ req[q].auditOk = "failed" /\ AuditsOf(q) = {}

\* --------------------------------------------- properties: kubectl audit
\* C20: every answered POST /api/kubectl/execute with a non-empty command whose
\* audit insert did not fail has exactly one audit record, with action
\* 'execute', resource 'kubectl-commands' and resourceId '<namespace>::<command>',
\* whether the command succeeded, failed or was rejected by the allow list; a
\* request without a command is answered 400 and has none.
C20_EveryExecuteAudited ==
  \A r \in ReqIds :
    (req[r].kind = "POST_kubectl" /\ req[r].pc = "done")
      => IF CommandOf(r) = <<>>
         THEN req[r].status = 400 /\ AuditsOf(r) = {}
         ELSE req[r].auditOk # "failed"
                => /\ Cardinality(AuditsOf(r)) = 1
                   /\ \A a \in AuditsOf(r) :
                        /\ a.action = "execute"
                        /\ a.resource = "kubectl-commands"
                        /\ a.resourceId = req[r].id

\* ---------------------------------------------------------- by-id requests
\* One GET, PUT or DELETE by id at a time, over the ids of stored documents,
\* of no document, and malformed ones.
NextById ==
  LET r == 1
  IN \/ \E res \in Resources : \E id \in IdParams(res) : GetById(r, res, id)
     \/ \E id \in IdParams("users"), role \in RoleNames \cup {Absent} : PutUsers(r, id, role)
     \/ \E id \in IdParams("roles"), name \in NewRoleNames : PutRolesFindOne(r, id, name)
     \/ PutRolesUpdate(r)
     \/ \E id \in IdParams("roles"), name \in {"", Absent} : PutRolesUnchecked(r, id, name)
     \/ \E id \in IdParams("agents"), name \in {"helper2", Absent} : PutAgents(r, id, name)
     \/ \E res \in PlainDelete : \E id \in IdParams(res) : DeleteFindOne(r, res, id)
     \/ DeleteDeleteOne(r)
     \/ \E id \in IdParams("roles") : DeleteRolesFindOne(r, id)
     \/ DeleteRolesCountDocuments(r)
     \/ DeleteRolesDeleteOne(r)
     \/ createAuditLog(r)
     \/ Respond(r)

SpecById == Init /\ [][NextById]_vars

\* ------------------------------------------------------ properties: by id
ByIdKinds ==
  {"GET", "PUT_users", "PUT_roles", "PUT_agents", "DELETE", "DELETE_roles"}
\* The id of request r is the key of no document the resource held when the
\* request arrived (the store of SpecById before its one request).
MatchesNoDocument(r) ==
  \A d \in InitColl[req[r].res] : req[r].id \notin {ObjectIdToString(d._id), d.appId}

\* C21: a GET, PUT or DELETE by an id that matches no stored document of the
\* resource is answered 404, leaves every collection as it was and writes no
\* audit record.
C21_AbsentIdIs404 ==
  \A r \in ReqIds :
    (req[r].kind \in ByIdKinds /\ req[r].pc = "done" /\ MatchesNoDocument(r))
      => /\ req[r].status = 404
         /\ coll = InitColl
         /\ audit_logs = {}

\* ------------------------------------------------ properties: store bucket
\* C22: with a store handle, the mongodb entry of a system-status response is
\* healthy when the ping succeeded and down, with the connection error as
\* reason, when it failed, whatever the pods of the bucket are; the status
\* derived from the pods is reported only without a store handle.
C22_PingOverridesPods ==
  \A r \in ReqIds :
    (req[r].kind = "GET_system_status" /\ req[r].pc = "done")
      => LET entry == req[r].health.mongodb
             running == RunningIn(entry)
         IN IF server.db # NoDb
            THEN IF req[r].query.ping
                 THEN entry.status = "healthy"
                 ELSE entry.status = "down" /\ entry.reason = "Connection error"
            ELSE entry.status =
                   (IF running = {} THEN "down"
                    ELSE IF Cardinality(running) < Len(entry.pods) THEN "degraded"
                    ELSE "healthy")

\* C22 witness: the ping succeeded and the bucket is reported healthy although
\* it has pods and none of them is running.
C22_Witness ==
  \E r \in ReqIds :
    /\ req[r].kind = "GET_system_status" /\ req[r].pc = "done"
    /\ server.db # NoDb
    /\ req[r].query.ping
    /\ Len(req[r].health.mongodb.pods) > 0
    /\ RunningIn(req[r].health.mongodb) = {}
    /\ req[r].health.mongodb.status = "healthy"

\* -------------------------------------------------------------------- actor
\* req.headers of the identity proxy: each of the four headers is missing,
\* empty, or carries a value.
Headers ==
  [email : {Absent, "", "a@x"}, authEmail : {Absent, "", "b@x"},
   user : {Absent, "", "alice"}, authUser : {Absent, "", "bob"}]
\* JavaScript `a || b`: a unless a is falsy (undefined or '').
Or(a, b) == IF a \in {Absent, ""} THEN b ELSE a
\* getUserFromHeaders(req)
getUserFromHeaders(headers) ==
  LET userEmail == Or(headers.email, Or(headers.authEmail, "unknown"))
      userName == Or(headers.user, Or(headers.authUser, userEmail))
  IN [userEmail |-> userEmail, userName |-> userName]

\* An audited handler, from the arrival of a request with these headers to its
\* createAuditLog call: the mutation (here a session delete that hits), then
\* getUserFromHeaders.
AuditedAs(r, headers) ==
  /\ Arrives(r)
  /\ \E d \in coll["sessions"] :
       /\ coll' = [coll EXCEPT !["sessions"] = @ \ {d}]
       /\ req' = [req EXCEPT ![r] =
            [req[r] EXCEPT !.kind = "DELETE", !.res = "sessions",
               !.id = ObjectIdToString(d._id), !.snap = d, !.pc = "insertOne",
               !.query = [headers |-> headers],
               !.result = getUserFromHeaders(headers),
               !.aud = AuditArgs("delete", "sessions", ObjectIdToString(d._id))]]
  /\ UNCHANGED <<server, audit_logs, nextOid, k8sCalls>>

\* createAuditLog with the actor fields of its record written out.
createAuditLogAs(r) ==
  /\ req[r].pc = "insertOne"
  /\ req[r].res = "sessions"
  /\ \/ /\ audit_logs' = audit_logs \cup
               {[_id |-> nextOid, action |-> req[r].aud.action,
                 resource |-> req[r].aud.resource,
                 resourceId |-> req[r].aud.resourceId,
                 userEmail |-> req[r].result.userEmail,
                 userName |-> req[r].result.userName, req |-> r]}
        /\ nextOid' = nextOid + 1
        /\ req' = [req EXCEPT ![r].pc = "respond", ![r].auditOk = "ok",
                               ![r].auditId = nextOid]
     \/ /\ UNCHANGED <<audit_logs, nextOid>>
        /\ req' = [req EXCEPT ![r].pc = "respond", ![r].auditOk = "failed"]
  /\ UNCHANGED <<server, coll, k8sCalls>>

NextActor ==
  LET r == 1
  IN \/ \E headers \in Headers : AuditedAs(r, headers)
     \/ createAuditLogAs(r)
     \/ Respond(r)

SpecActor == Init /\ [][NextActor]_vars

\* ------------------------------------------------------- properties: actor
\* The primary header if it carries a value, else the fallback header if it
\* carries a value, else 'unknown'.
PrimaryFallbackUnknown(primary, fallback) ==
  CASE primary \notin {Absent, ""} -> primary
    [] fallback \notin {Absent, ""} -> fallback
    [] OTHER -> "unknown"

\* C23: the actor email of an audit record is the primary email header, else
\* the fallback email header, else 'unknown'; and the actor display name is the
\* primary name header, else the fallback name header, else 'unknown'.
C23_ActorFromHeaders ==
  \A a \in audit_logs :
    LET headers == req[a.req].query.headers
    IN /\ a.userEmail = PrimaryFallbackUnknown(headers.email, headers.authEmail)
       /\ a.userName = PrimaryFallbackUnknown(headers.user, headers.authUser)

\* ------------------------------------------------------------- pod by id
\* What the control plane may report of one pod: phases, container lists (also
\* omitted or empty) and condition lists of up to two conditions (also omitted).
PodPhases == {"Running", "Pending", "Failed", "Succeeded"}
ContainerLists ==
  {Omitted, Given(<<>>)} \cup {Given(<<[ready |-> a]>>) : a \in BOOLEAN}
    \cup {Given(<<[ready |-> a], [ready |-> b]>>) : a, b \in BOOLEAN}
PodConditions ==
  {[status |-> "True", reason |-> "", message |-> ""],
   [status |-> "False", reason |-> "Unschedulable", message |-> "no nodes"],
   [status |-> "False", reason |-> "", message |-> "containers not ready"],
   [status |-> "False", reason |-> "ContainersNotReady", message |-> ""]}
ConditionLists ==
  {Omitted, Given(<<>>)} \cup {Given(<<c>>) : c \in PodConditions}
    \cup {Given(<<c, d>>) : c, d \in PodConditions}

\* GET /api/pods/:id for the id of a pod that is there: getPod reads it and
\* answers formatPodInfo of what the control plane reports.
GetPod(r, phase, containerStatuses, conditions) ==
  /\ Arrives(r)
  /\ LET pod == [namespace |-> "librechat", name |-> "librechat-api-1", phase |-> phase,
                 containerStatuses |-> containerStatuses, conditions |-> conditions]
     IN req' = [req EXCEPT ![r] =
          [req[r] EXCEPT !.kind = "GET_pod", !.res = "k8s", !.pc = "done",
             !.id = [t |-> "cid", v |-> 0, s |-> <<"librechat", "::", "librechat-api-1">>],
             !.query = [pod |-> pod], !.data = <<formatPodInfo(pod)>>,
             !.status = 200]]
  /\ UNCHANGED <<server, coll, audit_logs, nextOid, k8sCalls>>

NextPod ==
  LET r == 1
  IN \E phase \in PodPhases, containerStatuses \in ContainerLists,
        conditions \in ConditionLists :
       GetPod(r, phase, containerStatuses, conditions)

SpecPod == Init /\ [][NextPod]_vars

\* ------------------------------------------------------- properties: pods
\* The pod a GET_pod request was answered from and the projection it got.
PodOf(r) == req[r].query.pod
InfoOf(r) == req[r].data[1]
PodAnswered(r) == req[r].kind = "GET_pod" /\ req[r].pc = "done" /\ req[r].status = 200
ContainersOf(r) == PodOf(r).containerStatuses.items
ConditionsOf(r) == PodOf(r).conditions.items
EveryContainerReady(r) == \A i \in DOMAIN ContainersOf(r) : ContainersOf(r)[i].ready
FalseConditions(r) == {i \in DOMAIN ConditionsOf(r) : ConditionsOf(r)[i].status = "False"}
\* reason, or else message, of the first condition that reports False.
FirstFalseReason(r) ==
  LET i == CHOOSE k \in FalseConditions(r) : \A j \in FalseConditions(r) : k <= j
      c == ConditionsOf(r)[i]
  IN IF c.reason # "" THEN c.reason ELSE c.message
StatusDerived(r) ==
  /\ InfoOf(r).status = "Running" <=> (PodOf(r).phase = "Running" /\ EveryContainerReady(r))
  /\ (PodOf(r).phase = "Running" /\ ~EveryContainerReady(r)) => InfoOf(r).status = "Not Ready"
  /\ PodOf(r).phase # "Running" => InfoOf(r).status = PodOf(r).phase

\* C24 as stated: status is 'Running' iff the phase is Running and every
\* container is ready, 'Not Ready' if the phase is Running and some container
\* is not ready, else the phase; and whenever any condition reports False,
\* statusReason is the reason (or else message) of the first such condition.
C24_StatusAndReason ==
  \A r \in ReqIds :
    PodAnswered(r)
      => /\ StatusDerived(r)
         /\ FalseConditions(r) # {} => InfoOf(r).statusReason = FirstFalseReason(r)

\* C24 amended: the status is derived as stated; statusReason is the reason
\* (or else message) of the first condition that reports False when the phase
\* is not Running and there is such a condition, and empty otherwise, in
\* particular for every pod whose phase is Running.
C24_ReasonOnlyOutsideRunning ==
  \A r \in ReqIds :
    PodAnswered(r)
      => /\ StatusDerived(r)
         /\ InfoOf(r).statusReason =
              (IF PodOf(r).phase # "Running" /\ FalseConditions(r) # {}
               THEN FirstFalseReason(r) ELSE "")

\* C24 witness: a Pending pod whose second condition is the first to report
\* False, without a reason, shows that condition's message.
C24_Witness ==
  \E r \in ReqIds :
    /\ PodAnswered(r)
    /\ PodOf(r).phase = "Pending"
    /\ FalseConditions(r) = {2}
    /\ ConditionsOf(r)[2].reason = ""
    /\ InfoOf(r).status = "Pending"
    /\ InfoOf(r).statusReason = "containers not ready"

\* ---------------------------------------------------- properties: buckets
\* The pods (namespace and name) a service entry lists.
PodsIn(entry) ==
  {[namespace |-> entry.pods[i].namespace, name |-> entry.pods[i].name] :
     i \in 1..Len(entry.pods)}

\* C25: in every system-status response no pod is listed in more than one of
\* the librechat, mongodb and mcp entries.
C25_BucketsDisjoint ==
  \A r \in ReqIds :
    (req[r].kind = "GET_system_status" /\ req[r].pc = "done")
      => /\ PodsIn(req[r].health.librechat) \cap PodsIn(req[r].health.mongodb) = {}
         /\ PodsIn(req[r].health.librechat) \cap PodsIn(req[r].health.mcp) = {}
         /\ PodsIn(req[r].health.mongodb) \cap PodsIn(req[r].health.mcp) = {}

\* ------------------------------------------- properties: concurrent deletes
\* Requests r and q are two answered DELETEs of the same id of the same
\* resource, the id of a document the resource held when they arrived, and no
\* further request addresses that id or deletes audit records.
SameDelete(r, q) ==
  /\ r # q
  /\ req[r].kind = "DELETE" /\ req[q].kind = "DELETE"
  /\ req[r].pc = "done" /\ req[q].pc = "done"
  /\ req[r].res = req[q].res /\ req[r].id = req[q].id
  /\ \E d \in InitColl[req[r].res] : req[r].id \in {ObjectIdToString(d._id), d.appId}
  /\ \A x \in ReqIds \ {r, q} :
       /\ req[x].kind # "DELETE_audit"
       /\ ~(req[x].res = req[r].res /\ req[x].id = req[r].id)
DeleteRecords(r) ==
  {a \in AuditsOf(r) : a.action = "delete" /\ a.resource = req[r].res
                       /\ a.resourceId = req[r].id}

C27_SnapshotAsRemoved ==
  [][\A r \in ReqIds :
       (req[r].kind = "DELETE" /\ req[r].pc = "deleteOne" /\ req'[r].pc = "audit")
         => \A d \in coll[req[r].res] \ coll'[req[r].res] :
              /\ req'[r].snap # NoDoc
              /\ req'[r].snap.name = d.name]_vars

\* ------------------------------------------------------------ agent ids
\* The id fields a client may put in a body: none, those of a stored agent, or
\* others.
BodyIds == {NoStr, Str("app", 4), Str("app", 77)}
BodyOids == {NoStr, ObjectIdToString(4)}

\* Creates, updates and reads of agents, with bodies that carry id fields.
NextAgents ==
  \E r \in ReqIds :
    \/ \E id \in BodyIds, oid \in BodyOids, name \in {"helper", Absent} :
         PostAgentsBody(r, AgentBody(id, oid, name))
    \/ \E to \in IdParams("agents"), id \in BodyIds, oid \in BodyOids,
          name \in {"helper2", Absent} :
         PutAgentsBody(r, to, AgentBody(id, oid, name))
    \/ \E id \in IdParams("agents") \cup BodyIds : GetById(r, "agents", id)
    \/ createAuditLog(r)
    \/ Respond(r)

SpecAgents == Init /\ [][NextAgents]_vars

\* ----------------------------------------------------- properties: agent ids
\* The id an agent got when it was created (the stored agent, or one created by
\* a POST): generateAgentId at the time, which the model derives from the key.
CreatedId(d) == Str("app", d._id)

\* C28: every agent keeps the id it was given at creation, whatever id and _id
\* the bodies of POST and PUT requests carry: a successful POST answers with
\* the generated id, no step changes the id or key of a stored agent, and a
\* GET /api/agents/:id by the creation id of a stored agent answers 200 with
\* that agent.
C28_AgentIdImmutable ==
  /\ [](\A d \in coll["agents"] : d.appId = CreatedId(d))
  /\ [](\A r \in ReqIds :
          /\ (req[r].kind = "POST_agents" /\ Succeeded(r))
               => req[r].body.id = Str("app", req[r].newId)
          /\ (req[r].kind = "GET" /\ req[r].res = "agents" /\ req[r].pc = "done"
                /\ \E d \in coll["agents"] : CreatedId(d) = req[r].id)
               => req[r].status = 200 /\ req[r].body.id = req[r].id)
  /\ [][\A d \in coll["agents"] :
          \E e \in coll'["agents"] : e._id = d._id /\ e.appId = d.appId]_vars

\* C28 witness: a PUT whose body carried another id was answered 200, and a
\* later GET by the agent's creation id found the agent.
C28_Witness ==
  \E r, q \in ReqIds :
    /\ req[r].kind = "PUT_agents" /\ Succeeded(r)
    /\ req[r].query.body.id \notin {NoStr, req[r].id}
    /\ req[q].kind = "GET" /\ req[q].res = "agents" /\ req[q].pc = "done"
    /\ req[q].id = req[r].id
    /\ req[q].status = 200
    /\ r < q

\* ------------------------------------------------ properties: kubectl verbs
\* The switch of executeK8sCommand has a case for the verb: a call with it does
\* not end in the default branch.
HasHandler(verb) ==
  LET step == executeK8sCommand(verb, "pods", "b", <<"a">>, TRUE)
  IN ~(step.threw /\ step.msg = "Command not implemented")

\* C29: for every executed command, its verb passes the allow list of
\* POST /api/kubectl/execute exactly when the switch of executeK8sCommand has a
\* handler for it.
C29_AllowedEqualsHandled ==
  \A r \in ReqIds :
    (req[r].kind = "POST_kubectl" /\ req[r].pc = "done" /\ CommandOf(r) # <<>>)
      => LET verb == CommandOf(r)[1]
         IN verb \in allowedCommands <=> HasHandler(verb)

\* ------------------------------------------- properties: deployment status
\* C30: every deployment listed is 'Ready' exactly when its availableReplicas
\* equals its desiredReplicas, 'Partial' exactly when availableReplicas is
\* positive and differs from desiredReplicas, and 'Not Ready' exactly when
\* availableReplicas is zero and desiredReplicas is positive, also for a
\* deployment whose available or desired count the control plane omits.
C30_DeploymentStatus ==
  \A r \in ReqIds :
    (req[r].kind = "GET_deployments" /\ req[r].pc = "done")
    => \A i \in 1..Len(req[r].data) :
         LET d == req[r].data[i]
         IN /\ d.status = "Ready" <=> d.availableReplicas = d.desiredReplicas
            /\ d.status = "Partial"
                 <=> (d.availableReplicas > 0 /\ d.availableReplicas # d.desiredReplicas)
            /\ d.status = "Not Ready"
                 <=> (d.availableReplicas = 0 /\ d.desiredReplicas > 0)
====
